---- MODULE Spec2Model ----
(***************************************************************************)
(* Orchestration engine of the Telegram AI bot: the global RequestQueue,   *)
(* the multi-model fallback router (callAIWithQueue, callAIWithFallback),  *)
(* the MCP protocol client (MCPSSEClient) and getAIResponse.               *)
(*                                                                         *)
(* Time is the value of Date.now() in milliseconds.  Every step of the     *)
(* model is one run of the JavaScript event loop: a callback together with *)
(* all the promise continuations (microtasks) it triggers.                 *)
(* A timer that is due fires before the clock moves on.  Up to Horizon the *)
(* clock moves in steps of the spacing interval; later it moves from one   *)
(* armed timer to the next, so a request ends early or at a later timer.   *)
(*                                                                         *)
(* Texts (error messages, HTTP bodies) are sequences of tokens; a token    *)
(* stands for a piece of text, and String.includes is token membership.    *)
(*   "429"     the digits 429                                              *)
(*   "1302"    the digits 1302                                             *)
(*   "xianliu" the phrase "rate limited" (xian-liu) of ai.ts:238,254       *)
(*   "bingfa"  the phrase "concurrent" (bing-fa) of ai.ts:236              *)
(*   any other token is text without a marker                              *)
(***************************************************************************)
EXTENDS Integers, Sequences, FiniteSets, TLC

\* ------------------------------------------------------------------ bounds
\* number of getAIResponse calls that may be in flight
NumCalls == 2
\* longest custom model list config.aiModels
MaxModels == 2
\* last value of Date.now() the model explores
MaxTime == 64000
\* last time reached in steps of the spacing interval (or half of it); later
\* the clock moves from one timer to the next
Horizon == 8000
\* largest number of SSE frames in a response body
MaxFrames == 2
\* largest tool catalog a tools/list result carries
MaxCatalog == 100
\* largest number of words in a user message examined on its own
MaxWords == 3

\* ------------------------------------------------------- program constants
MIN_INTERVAL == 2000
OUTER_TIMEOUT_MS == 60000
TIMEOUT == 30000

Calls == 1..NumCalls

\* ------------------------------------------------------------ text helpers
\* String.prototype.includes on token texts
Includes(text, tok) == \E i \in DOMAIN text : text[i] = tok

\* String.prototype.trim on a text whose tokens are " " or visible text
RECURSIVE TrimLeft(_)
TrimLeft(s) == IF s # <<>> /\ Head(s) = " " THEN TrimLeft(Tail(s)) ELSE s

RECURSIVE TrimRight(_)
TrimRight(s) ==
    IF s # <<>> /\ s[Len(s)] = " " THEN TrimRight(SubSeq(s, 1, Len(s) - 1)) ELSE s

Trim(s) == TrimRight(TrimLeft(s))

Max(a, b) == IF a >= b THEN a ELSE b

\* --------------------------------------------------------------- the models
DEFAULT_AI_MODELS ==
    << [name |-> "GLM-4.6", priority |-> 1],
       [name |-> "GLM-4.5", priority |-> 2],
       [name |-> "MiniMax-M2", priority |-> 3],
       [name |-> "MiniMax-M1-80k", priority |-> 4],
       [name |-> "Qwen3-Coder", priority |-> 5],
       [name |-> "Qwen3-VL", priority |-> 6],
       [name |-> "Qwen3-Next", priority |-> 7],
       [name |-> "DeepSeek-V3.2-Exp", priority |-> 8],
       [name |-> "DeepSeek-V3.1", priority |-> 9] >>


\* Model names carry no rate-limit marker, as the names of DEFAULT_AI_MODELS.
CustomModel(i) == [name |-> "custom-" \o ToString(i), priority |-> i]

\* the values config.aiModels may have: absent (<<>>) or a custom list
ModelLists == { [i \in 1..n |-> CustomModel(i)] : n \in 0..MaxModels }

VARIABLES
    now,              \* Date.now()
    lastRequestTime,  \* RequestQueue.lastRequestTime
    queue,            \* state of the promise RequestQueue.queue (the chain's tail)
    tasks,            \* the tasks enqueued and not yet settled, in enqueue order
    call,             \* one record per getAIResponse call
    aiModels,         \* config.aiModels
    env,              \* what the users, the model API and the tool server may do
    probe             \* the input and the result of a function examined on its own

vars == <<now, lastRequestTime, queue, tasks, call, aiModels, env, probe>>

\* ai.ts:219-221, the list callAIWithFallback iterates
Models == IF Len(aiModels) > 0 THEN aiModels ELSE DEFAULT_AI_MODELS

\* ------------------------------------------------------ the tool selector
TOOL_CATEGORIES ==
    [ search  |-> {"search", "web", "google", "bing", "exa", "perplexity", "browse", "internet"},
      code    |-> {"code", "github", "git", "python", "javascript", "program", "script"},
      data    |-> {"database", "sql", "csv", "json", "xml", "data", "query"},
      file    |-> {"file", "read", "write", "download", "upload", "document"},
      image   |-> {"image", "photo", "picture", "screenshot", "visual"},
      math    |-> {"calculate", "math", "compute", "number", "formula"},
      time    |-> {"time", "date", "calendar", "schedule", "clock"},
      general |-> {"get", "fetch", "retrieve", "list", "show"} ]

Categories == DOMAIN TOOL_CATEGORIES

\* A user message is its text together with the keywords that occur in its
\* lower-cased text as substrings (what msg.includes(kw) answers).
Utterances ==
    { [text |-> "what's the weather", kws |-> {}],
      [text |-> "search the web", kws |-> {"search", "web"}] }

\* A tool is its name together with the keywords that occur in its lower-cased
\* name or description.
GetWeather == [name |-> "get_weather", kws |-> {"get"}]
WebSearch == [name |-> "web_search", kws |-> {"web", "search"}]

\* the tool arrays a tools/list result may carry
Catalogs == { <<>>, <<GetWeather>>, <<GetWeather, WebSearch>> }

\* the words user messages are made of, as typed
Words == {"GitHub", "git", "forget", "Search", "list", "weather", "DATABASE"}

\* ai.ts:78 String.prototype.toLowerCase on a word
toLowerCase(w) ==
    CASE w = "GitHub"   -> "github"
      [] w = "Search"   -> "search"
      [] w = "DATABASE" -> "database"
      [] OTHER          -> w

\* ai.ts:83 the keywords kw for which text.includes(kw) holds, text a word as
\* written (includes is case-sensitive)
KeywordsIn(text) ==
    CASE text = "github"   -> {"github", "git"}
      [] text = "git"      -> {"git"}
      [] text = "forget"   -> {"get"}
      [] text = "search"   -> {"search"}
      [] text = "list"     -> {"list"}
      [] text = "database" -> {"database", "data"}
      [] OTHER             -> {}

\* ai.ts:78-83 the user message made of `words` (keywords hold no blank, so a
\* keyword occurs in the message iff it occurs in one of its words)
Utterance(words) ==
    [text |-> words,
     kws  |-> UNION { KeywordsIn(toLowerCase(words[i])) : i \in DOMAIN words }]

\* a selectToolCategory without the default categories
selectToolCategoryNoDefault(message) ==
    { cat \in Categories : TOOL_CATEGORIES[cat] \cap message.kws # {} }

selectToolCategory(message) ==
    LET selected == { cat \in Categories : TOOL_CATEGORIES[cat] \cap message.kws # {} }
    IN  IF selected = {} THEN {"search", "general"} ELSE selected

ToolMatches(tool, categories) ==
    \E cat \in categories : TOOL_CATEGORIES[cat] \cap tool.kws # {}

Slice(s, n) == SubSeq(s, 1, IF Len(s) < n THEN Len(s) ELSE n)

\* a filterTools that keeps the filter however few tools match
filterToolsNoFallback(tools, categories) ==
    LET filtered == SelectSeq(tools, LAMBDA tool : ToolMatches(tool, categories))
    IN  Slice(filtered, 60)

\* a filterTools that caps the matching tools as it caps the catalog
filterToolsOneCap(tools, categories) ==
    LET filtered == SelectSeq(tools, LAMBDA tool : ToolMatches(tool, categories))
    IN  IF Len(filtered) < 20 THEN Slice(tools, 50) ELSE Slice(filtered, 50)

filterTools(tools, categories) ==
    LET filtered == SelectSeq(tools, LAMBDA tool : ToolMatches(tool, categories))
    IN  IF Len(filtered) < 20 THEN Slice(tools, 50) ELSE Slice(filtered, 60)

simplifyTools(tools) == [i \in DOMAIN tools |-> tools[i].name]

\* ------------------------------------------------------- the request queue
\* A task is the closure built by enqueue (ai.ts:33-46) for one attempt of
\* callAIWithQueue.  status: "chained" (waiting for the promise it was chained
\* on), "sleep" (in the spacing wait), "fetch" (dispatched, the HTTP call is in
\* flight), "rejected" (its promise rejected without the task running).
\* behind: how the task it was chained on settled ("none": it was chained on a
\* settled promise and ran at once).
NewTask(o, round, idx) ==
    [call |-> o, round |-> round, model |-> idx, status |-> "chained", wakeAt |-> 0,
     behind |-> "none"]

\* a task that starts whatever the wait its spacing asks for
BeginTaskNoWait(task, t, lrt) == [task EXCEPT !.status = "fetch"]

\* ai.ts:35-45, the task body from its start to its first suspension, at time t
BeginTask(task, t, lrt) ==
    LET timeSinceLastRequest == t - lrt
        waitTime == Max(0, MIN_INTERVAL - timeSinceLastRequest)
    IN  IF waitTime > 0
        THEN [task EXCEPT !.status = "sleep", !.wakeAt = t + waitTime]
        ELSE [task EXCEPT !.status = "fetch"]

\* a task chained on a fresh resolved promise instead of this.queue
ChainedOnNothing(q) == "fulfilled"

\* ai.ts:49, the promise the new task is chained on: this.queue
ChainedOn(q) == q

\* a chain whose link keeps the rejection: this.queue = result
QueueLinkNoCatch(fulfilled) == IF fulfilled THEN "fulfilled" ELSE "rejected"

\* ai.ts:50, this.queue = result.catch(() => {}): the state the chain's link takes
\* when the task's promise settles (fulfilled or rejected)
QueueLink(fulfilled) == "fulfilled"

\* a task run at once instead of being chained
ChainEager(task, on, t, lrt) == BeginTask(task, t, lrt)

\* Promise.prototype.then(task) on a promise in state `on`
Chain(task, on, t, lrt) ==
    CASE on = "fulfilled" -> BeginTask(task, t, lrt)
      [] on = "rejected"  -> [task EXCEPT !.status = "rejected"]
      [] OTHER            -> task

\* a queue that puts the retry of a request ahead of the tasks of the chain
EnqueueRetryFirst(q, task) ==
    LET started == Chain(task, ChainedOn(q.queue), now, q.lrt)
    IN  IF task.model > 1 /\ q.tasks # <<>>
        THEN [tasks |-> <<started>> \o q.tasks,
              queue |-> "pending",
              lrt   |-> q.lrt]
        ELSE [tasks |-> Append(q.tasks, started),
              queue |-> "pending",
              lrt   |-> IF started.status = "fetch" THEN now ELSE q.lrt]

\* an enqueue that stamps lastRequestTime itself
EnqueueStampsTime(q, task) ==
    LET started == Chain(task, ChainedOn(q.queue), now, q.lrt)
    IN  [tasks |-> Append(q.tasks, started),
         queue |-> "pending",
         lrt   |-> now]

\* ai.ts:32-52 enqueue: the queue after `task` was enqueued at time `now`
Enqueue(q, task) ==
    LET started == Chain(task, ChainedOn(q.queue), now, q.lrt)
    IN  [tasks |-> Append(q.tasks, started),
         queue |-> "pending",
         lrt   |-> IF started.status = "fetch" THEN now ELSE q.lrt]

RemoveAt(s, j) == SubSeq(s, 1, j - 1) \o SubSeq(s, j + 1, Len(s))

\* The promise of task j settles: its link of the chain settles with it and the
\* task chained on that link, if any, starts.
SettleTask(q, j, fulfilled) ==
    LET link == QueueLink(fulfilled)
        how  == IF fulfilled THEN "fulfilled" ELSE "rejected"
        rest == RemoveAt(q.tasks, j)
    IN  IF j <= Len(rest)
        THEN IF rest[j].status = "chained"
             THEN LET next == Chain([rest[j] EXCEPT !.behind = how],
                                    link, now, q.lrt)
                  IN  [tasks |-> [rest EXCEPT ![j] = next],
                       queue |-> q.queue,
                       lrt   |-> IF next.status = "fetch" THEN now ELSE q.lrt]
             ELSE [tasks |-> rest, queue |-> q.queue, lrt |-> q.lrt]
        ELSE [tasks |-> rest, queue |-> link, lrt |-> q.lrt]

TheQueue == [tasks |-> tasks, queue |-> queue, lrt |-> lastRequestTime]

\* ---------------------------------------------------- the model backend
\* What one HTTP call to the model API can end with.  kind:
\*   "neterr"  fetch rejects (text: the error's message)
\*   "http"    a non-OK status (text: the response body)
\*   "badjson" status OK, response.json() rejects
\*   "error"   status OK, body {error: {code, message: text}}
\*   "reply"   status OK, body {choices: [{message: reply}]}
NoReply == [content |-> <<>>, tool_calls |-> <<>>]

Outcome(kind, status, code, text, reply) ==
    [kind |-> kind, status |-> status, code |-> code, text |-> text, reply |-> reply]

HttpErrors ==
    { Outcome("http", 429, "", <<"too many requests">>, NoReply),
      Outcome("http", 500, "", <<"internal error">>, NoReply),
      Outcome("http", 500, "", <<"request", "429">>, NoReply),
      Outcome("http", 400, "", <<"xianliu">>, NoReply),
      Outcome("http", 400, "", <<"code", "1302">>, NoReply),
      Outcome("http", 503, "", <<"bingfa">>, NoReply) }

BodyErrors ==
    { Outcome("error", 200, "1302", <<"too many calls">>, NoReply),
      Outcome("error", 200, "", <<"status", "429">>, NoReply),
      Outcome("error", 200, "", <<"bingfa">>, NoReply),
      Outcome("error", 200, "", <<"xianliu">>, NoReply),
      Outcome("error", 200, "500", <<"invalid request">>, NoReply),
      Outcome("error", 200, "", <<"invalid request">>, NoReply) }

\* a tool_calls entry: the tool's name and whether its arguments parse as JSON
ToolCall(name, argsOk) == [name |-> name, argsOk |-> argsOk]

\* the message of choices[0]; an absent message, a null content and an empty
\* content are all the empty text (the code tests them with `!`)
Replies ==
    { [content |-> <<"hello">>, tool_calls |-> <<>>],
      [content |-> <<" ", "hello", " ">>, tool_calls |-> <<>>],
      [content |-> <<" ">>, tool_calls |-> <<>>],
      [content |-> <<>>, tool_calls |-> <<>>],
      [content |-> <<>>, tool_calls |-> <<ToolCall("get_weather", TRUE)>>],
      [content |-> <<>>, tool_calls |-> <<ToolCall("get_weather", FALSE)>>] }

ModelOutcomes ==
    { Outcome("neterr", 0, "", <<"connection reset">>, NoReply),
      Outcome("badjson", 200, "", <<>>, NoReply) }
    \cup HttpErrors \cup BodyErrors
    \cup { Outcome("reply", 200, "", <<>>, r) : r \in Replies }

\* The rate-limit signals of the model API: HTTP 429, the vendor code 1302 (in
\* the error object, or in the text of an error body), the phrase "rate limited"
\* or the phrase "concurrent" in the error text.
RateLimitSignal(out) ==
    /\ out.kind \in {"http", "error"}
    /\ \/ out.kind = "http" /\ out.status = 429
       \/ out.code = "1302"
       \/ Includes(out.text, "1302")
       \/ Includes(out.text, "xianliu")
       \/ Includes(out.text, "bingfa")

\* a failure that carries no rate-limit marker at all
Unmarked(out) ==
    /\ out.kind \in {"neterr", "http", "badjson", "error"}
    /\ ~RateLimitSignal(out)
    /\ ~Includes(out.text, "429")

\* ai.ts:185-205 the promise of callAIWithQueue for an HTTP call that ended `out`,
\* answered by the model named `name`
callAIWithQueue(name, out) ==
    CASE out.kind = "neterr"  -> [ok |-> FALSE, msg |-> out.text, body |-> out, from |-> name]
      [] out.kind = "http"    ->
            [ok |-> FALSE, msg |-> <<"AI API error", ToString(out.status)>> \o out.text,
             body |-> out, from |-> name]
      [] out.kind = "badjson" ->
            [ok |-> FALSE, msg |-> <<"SyntaxError">>, body |-> out, from |-> name]
      [] OTHER                -> [ok |-> TRUE, msg |-> <<>>, body |-> out, from |-> name]

\* a catch block that goes on to the next model after every error
CatchAttemptLenient(msg) == [verdict |-> "next", msg |-> msg]

\* ai.ts:250-262 the catch block of one attempt
CatchAttempt(msg) ==
    IF Includes(msg, "429") \/ Includes(msg, "xianliu") \/ Includes(msg, "1302")
    THEN [verdict |-> "next", msg |-> msg]
    ELSE [verdict |-> "throw", msg |-> msg]

\* a loop that also goes on to the next model after a response without content
AttemptSkipsEmpty(name, res) ==
    IF ~res.ok
    THEN CatchAttempt(res.msg)
    ELSE IF res.body.kind = "error"
         THEN IF \/ res.body.code = "1302"
                 \/ Includes(res.body.text, "429")
                 \/ Includes(res.body.text, "bingfa")
              THEN [verdict |-> "next", msg |-> <<"model", name, "xianliu">> \o res.body.text]
              ELSE CatchAttempt(<<"model", name, "error">> \o res.body.text)
         ELSE IF res.body.reply = NoReply
              THEN [verdict |-> "next", msg |-> <<"model", name, "empty">>]
              ELSE [verdict |-> "return", msg |-> <<>>]

\* ai.ts:228-262 one iteration of the loop, given the promise of callAIWithQueue
Attempt(name, res) ==
    IF ~res.ok
    THEN CatchAttempt(res.msg)
    ELSE IF res.body.kind = "error"
         THEN IF \/ res.body.code = "1302"
                 \/ Includes(res.body.text, "429")
                 \/ Includes(res.body.text, "bingfa")
              THEN [verdict |-> "next", msg |-> <<"model", name, "xianliu">> \o res.body.text]
              ELSE CatchAttempt(<<"model", name, "error">> \o res.body.text)
         ELSE [verdict |-> "return", msg |-> <<>>]

\* ai.ts:266 the aggregate error
AllModelsFailed(lastError) ==
    <<"all models unavailable">> \o (IF lastError = <<>> THEN <<"unknown">> ELSE lastError)

\* ------------------------------------------------------ the MCP client
\* A JSON-RPC message decoded from the stream: id 0 stands for an absent (or
\* falsy) id; it carries an error, or a result with or without a tools array.
Message(id, isError, hasTools, tools) ==
    [id |-> id, isError |-> isError, hasTools |-> hasTools, tools |-> tools]

NoMessage == Message(0, FALSE, FALSE, <<>>)

MessageBodies ==
    { Message(0, TRUE, FALSE, <<>>), Message(0, FALSE, FALSE, <<>>) }
    \cup { Message(0, FALSE, TRUE, c) : c \in Catalogs }

\* the messages a server may send while request `id` is pending
Messages(id) == { [m EXCEPT !.id = i] : m \in MessageBodies, i \in {0, id, id + 1} }

\* One line of a chunk after chunk.split("\n").  data: the line starts with
\* "data: ".  kind of the rest: "json" (msg is the parsed value), "text" (not
\* JSON), "done" ("[DONE]") or "empty".
Line(data, kind, msg) == [data |-> data, kind |-> kind, msg |-> msg]

Chunks(id) ==
    { <<Line(TRUE, "json", m)>> : m \in Messages(id) }
    \cup { <<Line(TRUE, "done", NoMessage)>>,
           <<Line(TRUE, "text", NoMessage), Line(TRUE, "empty", NoMessage)>>,
           <<Line(FALSE, "json", Message(id, FALSE, TRUE, <<GetWeather>>))>>,
           <<Line(TRUE, "json", Message(id + 1, FALSE, TRUE, <<GetWeather>>)),
             Line(TRUE, "json", Message(id, FALSE, TRUE, <<>>))>>,
           <<Line(TRUE, "json", Message(id + 1, FALSE, TRUE, <<>>)),
             Line(TRUE, "json", Message(0, FALSE, TRUE, <<GetWeather>>)),
             Line(TRUE, "json", Message(id, FALSE, TRUE, <<>>))>> }

\* a read loop that wants the response's id to be the request's
LineMatchesStrict(line, id) ==
    /\ line.data
    /\ line.kind = "json"
    /\ line.msg.id = id

\* mcp_client.ts:454-463 does this line yield the result of request `id`?
LineMatches(line, id) ==
    /\ line.data
    /\ line.kind = "json"
    /\ (line.msg.id = 0 \/ line.msg.id = id)

\* mcp_client.ts:450-469 the result found in one chunk, if any
RECURSIVE ParseChunk(_, _)
ParseChunk(lines, id) ==
    IF lines = <<>> THEN [found |-> FALSE, msg |-> NoMessage]
    ELSE IF LineMatches(Head(lines), id) THEN [found |-> TRUE, msg |-> Head(lines).msg]
    ELSE ParseChunk(Tail(lines), id)

\* --- the response body as text
\* A response body is a sequence of pieces of text; a chunk of the stream is a
\* run of pieces (TextDecoder with stream: true never cuts a character,
\* mcp_client.ts:449).  The pieces:
\*   "da", "ta: "   the two halves of the prefix "data: "
\*   "{", "}"       the start and the end of a JSON object
\*   "own", "late"  the members of an object whose id is the request's
\*   "other"        the members of an object with another request's id
\*   "noid"         the members of an object without id
\*   "[DONE]", " "  the end marker, a blank
\*   "\n"           the line feed
Members == {"own", "late", "other", "noid"}

\* mcp_client.ts:458 JSON.parse(data) for request `id`: the object, or a throw
ParseJson(data, id) ==
    IF Len(data) = 3 /\ data[1] = "{" /\ data[2] \in Members /\ data[3] = "}"
    THEN [ok |-> TRUE,
          msg |-> CASE data[2] = "own"   -> Message(id, FALSE, TRUE, <<>>)
                    [] data[2] = "late"  -> Message(id, FALSE, TRUE, <<GetWeather>>)
                    [] data[2] = "other" -> Message(id + 1, FALSE, TRUE, <<>>)
                    [] OTHER             -> Message(0, FALSE, TRUE, <<>>)]
    ELSE [ok |-> FALSE, msg |-> NoMessage]

\* mcp_client.ts:450 chunk.split("\n")
RECURSIVE SplitLines(_)
SplitLines(chunk) ==
    IF \A i \in DOMAIN chunk : chunk[i] # "\n" THEN <<chunk>>
    ELSE LET n == CHOOSE i \in DOMAIN chunk :
                      chunk[i] = "\n" /\ \A k \in 1..(i - 1) : chunk[k] # "\n"
         IN  <<SubSeq(chunk, 1, n - 1)>> \o SplitLines(SubSeq(chunk, n + 1, Len(chunk)))

\* mcp_client.ts:454-467 what the loop body makes of one line
ReadLine(line, id) ==
    IF ~(Len(line) >= 2 /\ line[1] = "da" /\ line[2] = "ta: ")
    THEN Line(FALSE, "text", NoMessage)
    ELSE LET data == Trim(SubSeq(line, 3, Len(line)))
             parsed == ParseJson(data, id)
         IN  IF data = <<>> THEN Line(TRUE, "empty", NoMessage)
             ELSE IF data = <<"[DONE]">> THEN Line(TRUE, "done", NoMessage)
             ELSE IF parsed.ok THEN Line(TRUE, "json", parsed.msg)
             ELSE Line(TRUE, "text", NoMessage)

\* mcp_client.ts:449-452 the lines of one chunk
DecodeChunk(chunk, id) ==
    LET lines == SplitLines(chunk)
    IN  [i \in DOMAIN lines |-> ReadLine(lines[i], id)]

\* the SSE frames a server sends
Frames ==
    { <<"da", "ta: ", "{", m, "}", "\n", "\n">> : m \in Members }
    \cup { <<"da", "ta: ", "[DONE]", "\n", "\n">> }

\* the response bodies of at most n frames
RECURSIVE Streams(_)
Streams(n) ==
    IF n = 0 THEN { <<>> }
    ELSE Streams(n - 1) \cup { s \o f : s \in Streams(n - 1), f \in Frames }

\* What the promise of sendRequest settles with.  kind: "message" (fulfilled
\* with msg) or the reason of the rejection: "neterr", "http", "nobody",
\* "nomatch", "timeout".
RpcOutcome(kind, msg) == [kind |-> kind, msg |-> msg]

\* the same, with the status fetch reported (0: fetch failed)
StatusOutcome(kind, msg, status) == [kind |-> kind, msg |-> msg, status |-> status]

\* the same, with the chunk the read loop was given when it got there
ChunkOutcome(kind, msg, chunk) == [kind |-> kind, msg |-> msg, read |-> chunk]

\* outcome: what the promise of sendRequest settled with; deliveries: how many
\* times a settlement reached the code that awaits it
NoRpc ==
    [phase |-> "none", id |-> 0, method |-> "", deadline |-> 0, race |-> "none",
     outcome |-> "none", deliveries |-> 0,
     read |-> <<>>, result |-> NoMessage, params |-> <<>>,
     sent |-> <<>>, statuses |-> <<>>]

\* mcp_client.ts:414 the params of the query: the JSON text of the params,
\* percent-encoded by the client before it is set as a query parameter
encodeURIComponent(params) == <<"%", params>>

\* what a server that reads the query of the GET decodes the params to
decodeURIComponent(text) == IF Len(text) = 2 /\ text[1] = "%" THEN text[2] ELSE text

\* mcp_client.ts:398-422 an HTTP request of the exchange: tryPost sends the
\* request as the body, tryGet sends method, id and the encoded params as
\* query parameters
HttpRequest(verb, id, method, params) ==
    [verb |-> verb, id |-> id, method |-> method,
     params |-> IF verb = "GET" THEN encodeURIComponent(params) ELSE params]

\* mcp_client.ts:386-425 sendRequest called at time `now`: the timer is armed
\* and the POST is issued
sendRequest(id, method, params) ==
    [phase |-> "post", id |-> id, method |-> method, deadline |-> now + TIMEOUT,
     race |-> "pending", outcome |-> "none", deliveries |-> 0,
     read |-> <<>>, result |-> NoMessage, params |-> params,
     sent |-> <<HttpRequest("POST", id, method, params)>>, statuses |-> <<>>]

\* a listTools whose catch block throws the error again
listToolsRethrows(out) ==
    IF out.kind = "message" /\ ~out.msg.isError
    THEN [ok |-> TRUE, tools |-> IF out.msg.hasTools THEN out.msg.tools ELSE <<>>]
    ELSE [ok |-> FALSE, tools |-> <<>>]

\* how the tools/list request ended: the reason of sendRequest's rejection,
\* "rpcerror" (a response with an error), "notools" (a result without a tools
\* array) or "tools"
Discovery(out) ==
    IF out.kind # "message" THEN out.kind
    ELSE IF out.msg.isError THEN "rpcerror"
    ELSE IF ~out.msg.hasTools THEN "notools"
    ELSE "tools"

\* mcp_client.ts:306-333 the promise of listTools for a sendRequest that settled
\* with `out`
listTools(out) ==
    IF out.kind = "message" /\ ~out.msg.isError /\ out.msg.hasTools
    THEN [ok |-> TRUE, tools |-> out.msg.tools]
    ELSE [ok |-> TRUE, tools |-> <<>>]

\* mcp_client.ts:341-362 the promise of callTool
callTool(out) ==
    IF out.kind = "message" /\ ~out.msg.isError
    THEN [ok |-> TRUE, result |-> out]
    ELSE [ok |-> FALSE, result |-> out]

\* mcp_client.ts:394-479 what goes on of an earlier sendRequest when the next
\* one begins: its mainTask, unless it has returned or thrown (the race it
\* lost does not stop it).  Of an abandoned exchange the model keeps where
\* its mainTask is and the chunk it read last, not the requests it sent.
Abandoned(rpc) ==
    IF rpc.phase \in {"post", "get", "stream"}
    THEN [NoRpc EXCEPT !.phase = rpc.phase, !.id = rpc.id, !.method = rpc.method,
                       !.params = rpc.params, !.race = rpc.race,
                       !.outcome = rpc.outcome]
    ELSE NoRpc

\* ---------------------------------------------------------- getAIResponse
Pending == [kind |-> "pending", val |-> <<>>]
Text(val) == [kind |-> "text", val |-> val]
Failure(msg) == [kind |-> "error", val |-> msg]
Value(val) == [kind |-> "value", val |-> val]
Thrown(msg) == [kind |-> "thrown", val |-> msg]

FALLBACK == <<"sorry, the AI service timed out or is unavailable">>

NoUtterance == [text |-> "", kws |-> {}]
NoOutcome == Outcome("none", 0, "", <<>>, NoReply)
NoBody == [messages |-> <<>>, hasTools |-> FALSE, tools |-> <<>>]

InitCall ==
    [pc          |-> "idle",     \* position of mainTask: idle, discover, model, tool, done
     userMessage |-> NoUtterance,
     deadline    |-> 0,          \* when the 60 s timer fires
     timedOut    |-> FALSE,      \* the 60 s timer settled the race
     main        |-> Pending,    \* the promise of mainTask()
     ret         |-> Pending,    \* the promise getAIResponse returned
     requestId   |-> 0,          \* MCPSSEClient.requestId of this call's client
     rpc         |-> NoRpc,      \* the sendRequest in progress
     abandoned   |-> NoRpc,      \* the earlier sendRequest, if its mainTask still runs
     discovery   |-> "pending",  \* how the tools/list request ended
     listed      |-> FALSE,      \* listTools has returned
     mcpTools    |-> <<>>,       \* the catalog listTools returned
     zhipuTools  |-> <<>>,       \* the tools offered to the model
     requestBody |-> NoBody,
     round       |-> 0,          \* which callAIWithFallback call: 1 or 2
     idx         |-> 0,          \* position of the loop over the models
     lastError   |-> <<>>,       \* callAIWithFallback's lastError (<<>> is null)
     attempts    |-> <<>>,       \* the models attempted by this callAIWithFallback
     lastOut     |-> NoOutcome,  \* how the latest attempt's HTTP call ended
     verdict     |-> "none",     \* what the loop did with it: next, return, throw
     allLimited  |-> TRUE,       \* every attempt so far ended with a rate-limit signal
     routed      |-> Pending,    \* the promise of callAIWithFallback
     from        |-> "",         \* the model whose response it returned
     toolCalls   |-> 0,          \* number of tools/call requests issued
     intent      |-> <<>>,       \* the tool_calls entry that was invoked, if any
     events      |-> <<>>,       \* what the call has done so far, in order
     toolResult  |-> RpcOutcome("none", NoMessage),
     edits       |-> <<>>]       \* the texts the placeholder message was edited with

\* a getAIResponse whose catch block appends the error's message to its reply
CatchOuterLeaks(outcome) ==
    IF outcome.kind = "text" THEN Value(outcome.val) ELSE Value(FALLBACK \o outcome.val)

\* a getAIResponse whose catch block throws the error again
CatchOuterRethrows(outcome) ==
    IF outcome.kind = "text" THEN Value(outcome.val) ELSE Thrown(outcome.val)

\* ai.ts:391-396 what getAIResponse returns when the race settles with `outcome`
CatchOuter(outcome) ==
    IF outcome.kind = "text" THEN Value(outcome.val) ELSE Value(FALLBACK)

\* the texts of handleUserMessage (bot.ts, as recorded in context.md)
EMPTY_REPLY_WARNING == <<"the AI service returned an empty response">>
UNAVAILABLE == <<"sorry, the AI service is unavailable for now">>

\* a handler that edits the placeholder with whatever getAIResponse returned
handleUserMessageNoCheck(ret) ==
    IF ret.kind = "value" THEN ret.val ELSE UNAVAILABLE

\* context.md:47-66 handleUserMessage from the settling of getAIResponse on:
\* the text the placeholder message is edited with
handleUserMessage(ret) ==
    IF ret.kind = "value"
    THEN IF ret.val = <<>> \/ Trim(ret.val) = <<>>
         THEN EMPTY_REPLY_WARNING
         ELSE ret.val
    ELSE UNAVAILABLE

\* a handler that follows the fallback string with its error notice
ReturnsAndNotifies(c, outcome) ==
    [c EXCEPT !.ret = CatchOuter(outcome),
              !.edits = IF CatchOuter(outcome) = Value(FALLBACK)
                        THEN @ \o <<FALLBACK, UNAVAILABLE>>
                        ELSE Append(@, handleUserMessage(CatchOuter(outcome)))]

\* ai.ts:391-396 the race of getAIResponse settles with `outcome`; the handler
\* that awaits it edits the placeholder
Returns(c, outcome) ==
    [c EXCEPT !.ret = CatchOuter(outcome),
              !.edits = Append(@, handleUserMessage(CatchOuter(outcome)))]

\* a mainTask whose result replaces what getAIResponse has returned
SettleMainOverwrites(c, outcome) ==
    [Returns(c, outcome) EXCEPT !.pc = "done", !.main = outcome]

\* the promise of mainTask settles
SettleMain(c, outcome) ==
    LET c1 == IF c.ret.kind = "pending" THEN Returns(c, outcome) ELSE c
    IN  [c1 EXCEPT !.pc = "done", !.main = outcome]

\* a router that remembers the model that served the call's last request
StartRouterSticky(c, body) ==
    LET first == IF c.idx > 0 THEN c.idx ELSE 1
    IN  [c EXCEPT !.pc = "model", !.round = @ + 1, !.requestBody = body, !.idx = first,
                  !.lastError = <<>>, !.attempts = <<Models[first].name>>,
                  !.lastOut = NoOutcome, !.verdict = "none", !.allLimited = TRUE,
                  !.routed = Pending, !.from = "", !.events = Append(@, "model")]

\* a getAIResponse whose 60 s begin when it submits a request to the model
StartRouterRearms(c, body) ==
    [c EXCEPT !.pc = "model", !.round = @ + 1, !.requestBody = body, !.idx = 1,
              !.lastError = <<>>, !.attempts = <<Models[1].name>>,
              !.lastOut = NoOutcome, !.verdict = "none", !.allLimited = TRUE,
              !.routed = Pending, !.from = "", !.events = Append(@, "model"),
              !.deadline = IF c.ret.kind = "pending" THEN now + OUTER_TIMEOUT_MS ELSE @]

\* ai.ts:214-228 callAIWithFallback is called with `body`: the first model is
\* attempted.  The caller enqueues the task.
StartRouter(c, body) ==
    [c EXCEPT !.pc = "model", !.round = @ + 1, !.requestBody = body, !.idx = 1,
              !.lastError = <<>>, !.attempts = <<Models[1].name>>,
              !.lastOut = NoOutcome, !.verdict = "none", !.allLimited = TRUE,
              !.routed = Pending, !.from = "", !.events = Append(@, "model")]

\* ai.ts:289-320 from the return of listTools to the first model request
AfterListTools(c, listed) ==
    IF ~listed.ok
    THEN [c |-> SettleMain(c, Failure(<<"listTools failed">>)), enq |-> FALSE]
    ELSE LET categories == selectToolCategory(c.userMessage)
             filteredTools == filterTools(listed.tools, categories)
             zhipuTools == simplifyTools(filteredTools)
             body == [messages |-> <<[role |-> "user", content |-> c.userMessage.text]>>,
                      hasTools |-> Len(zhipuTools) > 0,
                      tools    |-> zhipuTools]
         IN  [c |-> StartRouter([c EXCEPT !.mcpTools = listed.tools,
                                          !.zhipuTools = zhipuTools, !.listed = TRUE],
                                body),
              enq |-> TRUE]

\* ai.ts:332-341,359 the content of the tool turn: the result of callTool, or
\* {error: message} when callTool threw
ToolPayload(called) ==
    IF called.ok
    THEN <<"result">>
    ELSE <<"error", IF called.result.kind = "message" THEN "rpcerror"
                    ELSE called.result.kind>>

\* a getAIResponse without the try/catch around callTool
AfterCallToolThrows(c, called) ==
    IF called.ok
    THEN [c |-> StartRouter([c EXCEPT !.toolResult = called.result],
                            [messages |-> <<[role |-> "user", content |-> c.userMessage.text],
                                            [role |-> "assistant", content |-> c.lastOut.reply.tool_calls],
                                            [role |-> "tool", content |-> ToolPayload(called)]>>,
                             hasTools |-> TRUE,
                             tools    |-> c.zhipuTools]),
          enq |-> TRUE]
    ELSE [c |-> SettleMain([c EXCEPT !.toolResult = called.result],
                           Failure(<<"tool call failed">>)),
          enq |-> FALSE]

\* a second request that leaves out the assistant turn
AfterCallToolForgetsIntent(c, called) ==
    [c |-> StartRouter([c EXCEPT !.toolResult = called.result],
                       [messages |-> <<[role |-> "user", content |-> c.userMessage.text],
                                       [role |-> "tool", content |-> ToolPayload(called)]>>,
                        hasTools |-> TRUE,
                        tools    |-> c.zhipuTools]),
     enq |-> TRUE]

\* ai.ts:332-366 from the settling of callTool to the second model request
AfterCallTool(c, called) ==
    LET body == [messages |-> <<[role |-> "user", content |-> c.userMessage.text],
                                [role |-> "assistant", content |-> c.lastOut.reply.tool_calls],
                                [role |-> "tool", content |-> ToolPayload(called)]>>,
                 hasTools |-> TRUE,
                 tools    |-> c.zhipuTools]
    IN  [c |-> StartRouter([c EXCEPT !.toolResult = called.result], body), enq |-> TRUE]

\* the promise of sendRequest settles with `out`: listTools or callTool resumes
AfterRpc(c, out) ==
    LET c1 == [c EXCEPT !.rpc.race = "settled", !.rpc.deadline = 0,
                        !.rpc.outcome = out.kind, !.rpc.deliveries = @ + 1,
                        !.rpc.result = out.msg]
        settled == RpcOutcome(out.kind, out.msg)
    IN  IF c.pc = "discover"
        THEN AfterListTools([c1 EXCEPT !.discovery = Discovery(settled)], listTools(settled))
        ELSE AfterCallTool(c1, callTool(settled))

\* a mainTask that returns the reply's text as it is
AfterRouterNoTrim(c, reply) ==
    IF c.routed.kind = "error" THEN SettleMain(c, c.routed)
    ELSE IF c.round = 1 /\ Len(reply.tool_calls) > 0
         THEN LET toolCall == reply.tool_calls[1]
              IN  IF ~toolCall.argsOk
                  THEN SettleMain(c, Failure(<<"SyntaxError">>))
                  ELSE [c EXCEPT !.pc = "tool", !.requestId = @ + 1,
                                 !.toolCalls = @ + 1,
                                 !.intent = <<toolCall>>,
                                 !.events = Append(@, "tool"),
                                 !.abandoned = Abandoned(c.rpc),
                                 !.rpc = sendRequest(c.requestId + 1, "tools/call", <<toolCall>>)]
         ELSE IF reply.content = <<>>
              THEN SettleMain(c, Failure(<<"no text in the AI response">>))
              ELSE SettleMain(c, Text(reply.content))

\* a mainTask that invokes a tool whenever a reply asks for one
AfterRouterLoops(c, reply) ==
    IF c.routed.kind = "error" THEN SettleMain(c, c.routed)
    ELSE IF Len(reply.tool_calls) > 0
         THEN LET toolCall == reply.tool_calls[1]
              IN  IF ~toolCall.argsOk
                  THEN SettleMain(c, Failure(<<"SyntaxError">>))
                  ELSE [c EXCEPT !.pc = "tool", !.requestId = @ + 1,
                                 !.toolCalls = @ + 1,
                                 !.intent = <<toolCall>>,
                                 !.events = Append(@, "tool"),
                                 !.abandoned = Abandoned(c.rpc),
                                 !.rpc = sendRequest(c.requestId + 1, "tools/call", <<toolCall>>)]
         ELSE IF reply.content = <<>>
              THEN SettleMain(c, Failure(<<"no text in the AI response">>))
              ELSE SettleMain(c, Text(Trim(reply.content)))

\* a mainTask that hands the arguments to the tool as they came
AfterRouterSkipsParse(c, reply) ==
    IF c.routed.kind = "error" THEN SettleMain(c, c.routed)
    ELSE IF c.round = 1 /\ Len(reply.tool_calls) > 0
         THEN LET toolCall == reply.tool_calls[1]
              IN  [c EXCEPT !.pc = "tool", !.requestId = @ + 1,
                            !.toolCalls = @ + 1,
                            !.intent = <<toolCall>>,
                            !.events = Append(@, "tool"),
                            !.abandoned = Abandoned(c.rpc),
                            !.rpc = sendRequest(c.requestId + 1, "tools/call", <<toolCall>>)]
         ELSE IF reply.content = <<>>
              THEN SettleMain(c, Failure(<<"no text in the AI response">>))
              ELSE SettleMain(c, Text(Trim(reply.content)))

\* ai.ts:320-388 callAIWithFallback settled: the rest of mainTask
AfterRouter(c, reply) ==
    IF c.routed.kind = "error" THEN SettleMain(c, c.routed)
    ELSE IF c.round = 1 /\ Len(reply.tool_calls) > 0
         THEN LET toolCall == reply.tool_calls[1]
              IN  IF ~toolCall.argsOk
                  THEN SettleMain(c, Failure(<<"SyntaxError">>))
                  ELSE [c EXCEPT !.pc = "tool", !.requestId = @ + 1,
                                 !.toolCalls = @ + 1,
                                 !.intent = <<toolCall>>,
                                 !.events = Append(@, "tool"),
                                 !.abandoned = Abandoned(c.rpc),
                                 !.rpc = sendRequest(c.requestId + 1, "tools/call", <<toolCall>>)]
         ELSE IF reply.content = <<>>
              THEN SettleMain(c, Failure(<<"no text in the AI response">>))
              ELSE SettleMain(c, Text(Trim(reply.content)))

\* a loop that gives up at the first rate-limited model
AfterAttemptGivesUp(c, res) ==
    LET name == Models[c.idx].name
        a  == Attempt(name, res)
        c1 == [c EXCEPT !.lastOut = res.body, !.verdict = a.verdict,
                        !.allLimited = @ /\ RateLimitSignal(res.body)]
    IN  CASE a.verdict = "return" ->
               [c |-> AfterRouter([c1 EXCEPT !.routed = Text(<<>>), !.from = res.from],
                                  res.body.reply),
                enq |-> FALSE]
          [] a.verdict = "throw" ->
               [c |-> AfterRouter([c1 EXCEPT !.routed = Failure(a.msg)], NoReply),
                enq |-> FALSE]
          [] OTHER ->
               [c |-> AfterRouter([c1 EXCEPT !.lastError = a.msg,
                                             !.routed = Failure(AllModelsFailed(a.msg))],
                                  NoReply),
                enq |-> FALSE]

\* ai.ts:226-266 the promise of callAIWithQueue settled with `res`: the loop of
\* callAIWithFallback goes on.  enq: another attempt has to be enqueued.
AfterAttempt(c, res) ==
    LET name == Models[c.idx].name
        a  == Attempt(name, res)
        c1 == [c EXCEPT !.lastOut = res.body, !.verdict = a.verdict,
                        !.allLimited = @ /\ RateLimitSignal(res.body)]
    IN  CASE a.verdict = "return" ->
               [c |-> AfterRouter([c1 EXCEPT !.routed = Text(<<>>), !.from = res.from],
                                  res.body.reply),
                enq |-> FALSE]
          [] a.verdict = "throw" ->
               [c |-> AfterRouter([c1 EXCEPT !.routed = Failure(a.msg)], NoReply),
                enq |-> FALSE]
          [] OTHER ->
               IF c.idx < Len(Models)
               THEN [c |-> [c1 EXCEPT !.lastError = a.msg, !.idx = @ + 1,
                                      !.attempts = Append(@, Models[c.idx + 1].name)],
                     enq |-> TRUE]
               ELSE [c |-> AfterRouter([c1 EXCEPT !.lastError = a.msg,
                                                  !.routed = Failure(AllModelsFailed(a.msg))],
                                       NoReply),
                     enq |-> FALSE]

\* ------------------------------------------------------------------ steps
\* what fetch can report for a request to the tool server: 0 is a network error
HttpStatuses == {0, 200, 400, 404, 405, 500}

\* a program whose request body is one object shared by the calls
ApplyShared(o, r, q) ==
    LET q2 == IF r.enq THEN Enqueue(q, NewTask(o, r.c.round, r.c.idx)) ELSE q
    IN  /\ call' = [p \in Calls |->
                      IF p = o THEN r.c
                      ELSE [call[p] EXCEPT !.requestBody =
                               IF @ # NoBody /\ r.c.requestBody # NoBody
                               THEN r.c.requestBody ELSE @]]
        /\ tasks' = q2.tasks
        /\ queue' = q2.queue
        /\ lastRequestTime' = q2.lrt

\* the step's effect on call o and, if it enqueues an attempt, on the queue q
Apply(o, r, q) ==
    LET q2 == IF r.enq THEN Enqueue(q, NewTask(o, r.c.round, r.c.idx)) ELSE q
    IN  /\ call' = [call EXCEPT ![o] = r.c]
        /\ tasks' = q2.tasks
        /\ queue' = q2.queue
        /\ lastRequestTime' = q2.lrt

\* a sendRequest that arms its timer again for the GET fallback
RpcStepRestartsTimer(o, phase, settles, out) ==
    LET c == [call[o] EXCEPT !.rpc.phase = phase,
                             !.rpc.deadline = IF phase = "get" THEN now + TIMEOUT ELSE @,
                             !.rpc.read = IF "read" \in DOMAIN out THEN out.read ELSE @,
                             !.rpc.statuses = IF "status" \in DOMAIN out
                                              THEN Append(@, out.status) ELSE @,
                             !.rpc.sent = IF phase = "get"
                                          THEN Append(@, HttpRequest("GET", call[o].rpc.id,
                                                                     call[o].rpc.method,
                                                                     call[o].rpc.params))
                                          ELSE @]
    IN  IF settles /\ c.rpc.race = "pending"
        THEN Apply(o, AfterRpc(c, out), TheQueue)
        ELSE /\ call' = [call EXCEPT ![o] = c]
             /\ UNCHANGED <<tasks, queue, lastRequestTime>>

\* a sendRequest whose mainTask settles the call even after the timer did
RpcStepNoRace(o, phase, settles, out) ==
    LET c == [call[o] EXCEPT !.rpc.phase = phase,
                             !.rpc.read = IF "read" \in DOMAIN out THEN out.read ELSE @,
                             !.rpc.statuses = IF "status" \in DOMAIN out
                                              THEN Append(@, out.status) ELSE @,
                             !.rpc.sent = IF phase = "get"
                                          THEN Append(@, HttpRequest("GET", call[o].rpc.id,
                                                                     call[o].rpc.method,
                                                                     call[o].rpc.params))
                                          ELSE @]
    IN  IF settles
        THEN Apply(o, AfterRpc(c, out), TheQueue)
        ELSE /\ call' = [call EXCEPT ![o] = c]
             /\ UNCHANGED <<tasks, queue, lastRequestTime>>

\* mainTask of sendRequest settles with `out`, or goes on in phase `phase`
RpcStep(o, phase, settles, out) ==
    LET c == [call[o] EXCEPT !.rpc.phase = phase,
                             !.rpc.read = IF "read" \in DOMAIN out THEN out.read ELSE @,
                             !.rpc.statuses = IF "status" \in DOMAIN out
                                              THEN Append(@, out.status) ELSE @,
                             !.rpc.sent = IF phase = "get"
                                          THEN Append(@, HttpRequest("GET", call[o].rpc.id,
                                                                     call[o].rpc.method,
                                                                     call[o].rpc.params))
                                          ELSE @]
    IN  IF settles /\ c.rpc.race = "pending"
        THEN Apply(o, AfterRpc(c, out), TheQueue)
        ELSE /\ call' = [call EXCEPT ![o] = c]
             /\ UNCHANGED <<tasks, queue, lastRequestTime>>

\* The environments explored.  Each bounds what the users, the model API and
\* the tool server do and when; the program is the same in all of them.
\*   Backends: one call, a tool server that is unreachable or silent, a model
\*             API that can answer in every way, the custom model lists
\*   Defaults: as Backends with the default model list and a model API that
\*             answers with a text, a rate limit or a fatal error
\*   Tools:    one call, a tool server that can answer in every way (of the
\*             statuses that lead to the GET fallback, with 405), a model
\*             API that answers with a reply, a rate limit or a fatal error,
\*             a list of one model
\* Environments explored on their own:
\*   Gateways: one call, a tool server that answers with every status and
\*             then with a result, a model API that answers with a text or
\*             asks for a tool, a list of one model
\*   Crowd:    NumCalls concurrent calls, a tool server that is unreachable or
\*             silent, a model API that answers with a text or a rate limit,
\*             a list of two models, at times twice as fine as in the others
Weather == [text |-> "what's the weather", kws |-> {}]

RateLimited == Outcome("http", 429, "", <<"too many requests">>, NoReply)
ServerError == Outcome("http", 500, "", <<"internal error">>, NoReply)
Hello == Outcome("reply", 200, "", <<>>, [content |-> <<"hello">>, tool_calls |-> <<>>])

\* the model asks for the tool get_weather
WeatherTool ==
    Outcome("reply", 200, "", <<>>,
            [content |-> <<>>, tool_calls |-> <<ToolCall("get_weather", TRUE)>>])

Backends ==
    [callers |-> {1}, lists |-> ModelLists \ {<<>>}, utterances |-> {Weather},
     statuses |-> {0}, outcomes |-> ModelOutcomes, ticks |-> {MIN_INTERVAL}]

Defaults ==
    [callers |-> {1}, lists |-> {<<>>}, utterances |-> Utterances,
     statuses |-> {0}, outcomes |-> {Hello, RateLimited, ServerError},
     ticks |-> {MIN_INTERVAL}]

Tools ==
    [callers |-> {1}, lists |-> {<<CustomModel(1)>>}, utterances |-> {Weather},
     statuses |-> HttpStatuses \ {400, 404},
     outcomes |-> {RateLimited, ServerError} \cup { Outcome("reply", 200, "", <<>>, r) : r \in Replies },
     ticks |-> {MIN_INTERVAL}]

Crowd ==
    [callers |-> Calls, lists |-> { l \in ModelLists : Len(l) = 2 }, utterances |-> {Weather},
     statuses |-> {0}, outcomes |-> {Hello, RateLimited},
     ticks |-> {MIN_INTERVAL \div 2}]

Gateways ==
    [callers |-> {1}, lists |-> {<<CustomModel(1)>>}, utterances |-> {Weather},
     statuses |-> HttpStatuses, outcomes |-> {Hello, WeatherTool},
     ticks |-> {MIN_INTERVAL}]

Environments == {Backends, Defaults, Tools, Crowd}

\* no function is examined on its own
NoProbe == [kind |-> "none"]

Init ==
    /\ now = MIN_INTERVAL      \* Date.now() is far above lastRequestTime + MIN_INTERVAL
    /\ lastRequestTime = 0
    /\ queue = "fulfilled"     \* Promise.resolve()
    /\ tasks = <<>>
    /\ call = [o \in Calls |-> InitCall]
    /\ env \in Environments
    /\ aiModels \in env.lists
    /\ probe = NoProbe

\* ai.ts:275-286 getAIResponse(userMessage, config) is called
Start(o, userMessage) ==
    /\ call[o].pc = "idle"
    /\ o \in env.callers
    /\ userMessage \in env.utterances
    /\ now + OUTER_TIMEOUT_MS + MIN_INTERVAL <= MaxTime
    /\ call' = [call EXCEPT ![o] =
                   [InitCall EXCEPT !.pc = "discover", !.userMessage = userMessage,
                                    !.deadline = now + OUTER_TIMEOUT_MS,
                                    !.requestId = 1,
                                    !.events = <<"discover">>,
                                    !.rpc = sendRequest(1, "tools/list", <<>>)]]
    /\ UNCHANGED <<now, lastRequestTime, queue, tasks, aiModels, env, probe>>

\* mcp_client.ts:425-439 the POST is answered: a network error, or a status
\* (with or without a readable body)
McpPostAnswered(o, status, hasBody) ==
    /\ call[o].rpc.phase = "post"
    /\ status \in env.statuses
    /\ CASE status = 0 -> RpcStep(o, "closed", TRUE, StatusOutcome("neterr", NoMessage, status))
         [] status \in {400, 404, 405} -> RpcStep(o, "get", FALSE, StatusOutcome("none", NoMessage, status))
         [] status # 200 -> RpcStep(o, "closed", TRUE, StatusOutcome("http", NoMessage, status))
         [] ~hasBody -> RpcStep(o, "closed", TRUE, StatusOutcome("nobody", NoMessage, status))
         [] OTHER -> RpcStep(o, "stream", FALSE, StatusOutcome("none", NoMessage, status))
    /\ UNCHANGED <<now, aiModels, env, probe>>

\* a fallback that sends the GET again when it is refused like the POST
McpGetAnsweredRetries(o, status, hasBody) ==
    /\ call[o].rpc.phase = "get"
    /\ status \in env.statuses
    /\ CASE status = 0 -> RpcStep(o, "closed", TRUE, StatusOutcome("neterr", NoMessage, status))
         [] status \in {400, 404, 405} ->
                RpcStep(o, "get", FALSE, StatusOutcome("none", NoMessage, status))
         [] status # 200 -> RpcStep(o, "closed", TRUE, StatusOutcome("http", NoMessage, status))
         [] ~hasBody -> RpcStep(o, "closed", TRUE, StatusOutcome("nobody", NoMessage, status))
         [] OTHER -> RpcStep(o, "stream", FALSE, StatusOutcome("none", NoMessage, status))
    /\ UNCHANGED <<now, aiModels, env, probe>>

\* mcp_client.ts:428-439 the GET of the fallback is answered
McpGetAnswered(o, status, hasBody) ==
    /\ call[o].rpc.phase = "get"
    /\ status \in env.statuses
    /\ CASE status = 0 -> RpcStep(o, "closed", TRUE, StatusOutcome("neterr", NoMessage, status))
         [] status # 200 -> RpcStep(o, "closed", TRUE, StatusOutcome("http", NoMessage, status))
         [] ~hasBody -> RpcStep(o, "closed", TRUE, StatusOutcome("nobody", NoMessage, status))
         [] OTHER -> RpcStep(o, "stream", FALSE, StatusOutcome("none", NoMessage, status))
    /\ UNCHANGED <<now, aiModels, env, probe>>

\* mcp_client.ts:445-472 reader.read() yields a chunk
McpChunk(o, chunk) ==
    /\ call[o].rpc.phase = "stream"
    /\ LET parsed == ParseChunk(chunk, call[o].rpc.id)
       IN  IF parsed.found
           THEN RpcStep(o, "closed", TRUE, ChunkOutcome("message", parsed.msg, chunk))
           ELSE RpcStep(o, "stream", FALSE, ChunkOutcome("none", NoMessage, chunk))
    /\ UNCHANGED <<now, aiModels, env, probe>>

\* mcp_client.ts:446-447,474-476 reader.read() reports the end of the stream
McpStreamEnd(o) ==
    /\ call[o].rpc.phase = "stream"
    /\ RpcStep(o, "closed", TRUE, RpcOutcome("nomatch", NoMessage))
    /\ UNCHANGED <<now, aiModels, env, probe>>

\* a client that hands a response to whichever request is waiting
LateStepShared(o, phase, out) ==
    LET c == [call[o] EXCEPT !.abandoned.phase = phase,
                             !.abandoned.read = IF "read" \in DOMAIN out THEN out.read ELSE @]
    IN  IF out.kind = "message" /\ c.rpc.race = "pending"
        THEN Apply(o, AfterRpc(c, out), TheQueue)
        ELSE /\ call' = [call EXCEPT ![o] = c]
             /\ UNCHANGED <<tasks, queue, lastRequestTime>>

\* mcp_client.ts:394-479 a step of the mainTask of the abandoned sendRequest of
\* call o: it reads its own response; what it returns or throws settles a
\* race that is settled already, which does nothing
LateStep(o, phase, out) ==
    LET c == [call[o] EXCEPT !.abandoned.phase = phase,
                             !.abandoned.read = IF "read" \in DOMAIN out THEN out.read ELSE @]
    IN  /\ call' = [call EXCEPT ![o] = c]
        /\ UNCHANGED <<tasks, queue, lastRequestTime>>

\* mcp_client.ts:425-439 the POST or the GET of the abandoned sendRequest is
\* answered
McpLateAnswered(o, status, hasBody) ==
    /\ call[o].abandoned.phase \in {"post", "get"}
    /\ status \in env.statuses
    /\ CASE status = 0 -> LateStep(o, "closed", StatusOutcome("neterr", NoMessage, status))
         [] call[o].abandoned.phase = "post" /\ status \in {400, 404, 405} ->
                LateStep(o, "get", StatusOutcome("none", NoMessage, status))
         [] status # 200 -> LateStep(o, "closed", StatusOutcome("http", NoMessage, status))
         [] ~hasBody -> LateStep(o, "closed", StatusOutcome("nobody", NoMessage, status))
         [] OTHER -> LateStep(o, "stream", StatusOutcome("none", NoMessage, status))
    /\ UNCHANGED <<now, aiModels, env, probe>>

\* mcp_client.ts:445-472 the reader of the abandoned sendRequest yields a chunk
McpLateChunk(o, chunk) ==
    /\ call[o].abandoned.phase = "stream"
    /\ LET parsed == ParseChunk(chunk, call[o].abandoned.id)
       IN  IF parsed.found
           THEN LateStep(o, "closed", ChunkOutcome("message", parsed.msg, chunk))
           ELSE LateStep(o, "stream", ChunkOutcome("none", NoMessage, chunk))
    /\ UNCHANGED <<now, aiModels, env, probe>>

\* mcp_client.ts:388-392 the 30 s timer of sendRequest fires
McpTimeout(o) ==
    /\ call[o].rpc.race = "pending"
    /\ now = call[o].rpc.deadline
    /\ Apply(o, AfterRpc(call[o], RpcOutcome("timeout", NoMessage)), TheQueue)
    /\ UNCHANGED <<now, aiModels, env, probe>>

\* ai.ts:41-45 the spacing wait of task j is over: the task is dispatched
SpacingElapsed(j) ==
    /\ j \in DOMAIN tasks
    /\ tasks[j].status = "sleep"
    /\ now = tasks[j].wakeAt
    /\ tasks' = [tasks EXCEPT ![j].status = "fetch"]
    /\ lastRequestTime' = now
    /\ UNCHANGED <<now, queue, call, aiModels, env, probe>>

\* ai.ts:188-204 the HTTP call of task j ends with `out`; the task settles, the
\* next task of the chain starts and callAIWithFallback resumes
ModelSettle(j, out) ==
    /\ j \in DOMAIN tasks
    /\ tasks[j].status = "fetch"
    /\ out \in env.outcomes
    /\ LET o   == tasks[j].call
           res == callAIWithQueue(Models[tasks[j].model].name, out)
       IN  Apply(o, AfterAttempt(call[o], res), SettleTask(TheQueue, j, res.ok))
    /\ UNCHANGED <<now, aiModels, env, probe>>

\* a getAIResponse whose timer aborts the model call of the call in flight
OuterTimeoutAborts(o) ==
    /\ call[o].pc # "idle"
    /\ call[o].ret.kind = "pending"
    /\ now = call[o].deadline
    /\ call' = [call EXCEPT ![o] = [Returns(@, Failure(<<"AI call timed out">>))
                                       EXCEPT !.timedOut = TRUE]]
    /\ LET js == { j \in DOMAIN tasks : tasks[j].call = o /\ tasks[j].status = "fetch" }
       IN  IF js = {}
           THEN UNCHANGED <<lastRequestTime, queue, tasks>>
           ELSE LET q == SettleTask(TheQueue, CHOOSE j \in js : TRUE, FALSE)
                IN  /\ tasks' = q.tasks
                    /\ queue' = q.queue
                    /\ lastRequestTime' = q.lrt
    /\ UNCHANGED <<now, aiModels, env, probe>>

\* ai.ts:277-279,391-396 the 60 s timer fires before mainTask settled
OuterTimeout(o) ==
    /\ call[o].pc # "idle"
    /\ call[o].ret.kind = "pending"
    /\ now = call[o].deadline
    /\ call' = [call EXCEPT ![o] = [Returns(@, Failure(<<"AI call timed out">>))
                                       EXCEPT !.timedOut = TRUE]]
    /\ UNCHANGED <<now, lastRequestTime, queue, tasks, aiModels, env, probe>>

\* The code reads lastRequestTime only in max(0, MIN_INTERVAL - (now - lastRequestTime)):
\* a value older than MIN_INTERVAL is kept as t - MIN_INTERVAL, which yields the
\* same wait at every later time.
Recent(lrt, t) == Max(lrt, t - MIN_INTERVAL)

\* a timer that is due fires before the clock moves on
TimersAllow(t) ==
    /\ \A j \in DOMAIN tasks : tasks[j].status = "sleep" => tasks[j].wakeAt >= t
    /\ \A o \in Calls :
          /\ call[o].rpc.race = "pending" => call[o].rpc.deadline >= t
          /\ (call[o].pc # "idle" /\ call[o].ret.kind = "pending") => call[o].deadline >= t

\* the deadlines of the timers that are armed
Deadlines ==
    { tasks[j].wakeAt : j \in { i \in DOMAIN tasks : tasks[i].status = "sleep" } }
    \cup { call[o].rpc.deadline : o \in { p \in Calls : call[p].rpc.race = "pending" } }
    \cup { call[o].deadline :
              o \in { p \in Calls : call[p].pc # "idle" /\ call[p].ret.kind = "pending" } }

\* by how much the clock may move on in one step
Delays == {MIN_INTERVAL \div 2, MIN_INTERVAL} \cup { t - now : t \in Deadlines }

\* the clock moves on by d
Tick(d) ==
    /\ d > 0
    /\ IF now + d <= Horizon
       THEN d \in env.ticks
       ELSE \E t \in Deadlines : d = t - now
    /\ now + d <= MaxTime
    /\ TimersAllow(now + d)
    /\ now' = now + d
    /\ lastRequestTime' = Recent(lastRequestTime, now + d)
    /\ UNCHANGED <<queue, tasks, call, aiModels, env, probe>>

Next ==
    \/ \E o \in Calls, m \in Utterances : Start(o, m)
    \/ \E o \in Calls, st \in HttpStatuses, b \in BOOLEAN : McpPostAnswered(o, st, b)
    \/ \E o \in Calls, st \in HttpStatuses, b \in BOOLEAN : McpGetAnswered(o, st, b)
    \/ \E o \in Calls : \E chunk \in Chunks(call[o].rpc.id) : McpChunk(o, chunk)
    \/ \E o \in Calls : McpStreamEnd(o)
    \/ \E o \in Calls : McpTimeout(o)
    \/ \E j \in 1..NumCalls : SpacingElapsed(j)
    \/ \E j \in 1..NumCalls, out \in ModelOutcomes : ModelSettle(j, out)
    \/ \E o \in Calls : OuterTimeout(o)
    \/ \E d \in Delays : Tick(d)

\* the steps possible while the tool server never answers with a status
NextUnreachable ==
    \/ \E o \in Calls, m \in Utterances : Start(o, m)
    \/ \E o \in Calls, st \in HttpStatuses, b \in BOOLEAN : McpPostAnswered(o, st, b)
    \/ \E o \in Calls : McpTimeout(o)
    \/ \E j \in 1..NumCalls : SpacingElapsed(j)
    \/ \E j \in 1..NumCalls, out \in ModelOutcomes : ModelSettle(j, out)
    \/ \E o \in Calls : OuterTimeout(o)
    \/ \E d \in Delays : Tick(d)

\* the program in every environment
Spec == Init /\ [][Next]_vars

\* the router: one call, every answer of the model API
InitRouter == Init /\ env \in {Backends, Defaults}

SpecRouter == InitRouter /\ [][NextUnreachable]_vars

\* the queue: concurrent calls
InitQueue == Init /\ env = Crowd

SpecQueue == InitQueue /\ [][NextUnreachable]_vars

\* the tool server: one call, every answer of the tool server
InitTools == Init /\ env = Tools

SpecTools == InitTools /\ [][Next]_vars

\* the transport: one call, every status of the tool server
InitGateways ==
    /\ now = MIN_INTERVAL
    /\ lastRequestTime = 0
    /\ queue = "fulfilled"
    /\ tasks = <<>>
    /\ call = [o \in Calls |-> InitCall]
    /\ env = Gateways
    /\ aiModels \in env.lists
    /\ probe = NoProbe

SpecGateways == InitGateways /\ [][Next]_vars

\* two calls at a time with different messages, a tool server that answers
\* each of them with a catalog of its own or refuses the connection, a model
\* API that answers with a text or a tool call; both answer before any of the
\* 30 s and 60 s timers is due, so no timer fires
Pair ==
    [callers |-> {1, 2}, lists |-> {<<CustomModel(1)>>}, utterances |-> Utterances,
     statuses |-> {0, 200}, outcomes |-> {Hello, WeatherTool},
     ticks |-> {MIN_INTERVAL}]

\* the chunks the tool server of Pair sends for request `id`
PairChunks(id) ==
    { <<Line(TRUE, "json", Message(id, FALSE, TRUE, <<GetWeather>>))>>,
      <<Line(TRUE, "json", Message(0, FALSE, TRUE, <<GetWeather, WebSearch>>))>> }

InitPair ==
    /\ now = MIN_INTERVAL
    /\ lastRequestTime = 0
    /\ queue = "fulfilled"
    /\ tasks = <<>>
    /\ call = [o \in Calls |-> InitCall]
    /\ env = Pair
    /\ aiModels \in env.lists
    /\ probe = NoProbe

NextPair ==
    \/ \E o \in Calls, m \in Utterances : Start(o, m)
    \/ \E o \in Calls, st \in HttpStatuses : McpPostAnswered(o, st, TRUE)
    \/ \E o \in Calls : \E chunk \in PairChunks(call[o].rpc.id) : McpChunk(o, chunk)
    \/ \E j \in 1..NumCalls, out \in ModelOutcomes : ModelSettle(j, out)
    \/ \E j \in 1..NumCalls : SpacingElapsed(j)
    \/ \E d \in Delays : Tick(d)

SpecPair == InitPair /\ [][NextPair]_vars

\* two calls at a time, a tool server that is slow: it answers each request
\* before or after the request's 30 s timer fires, with a message that
\* carries the request's id or none; a model API that asks for a tool.  The
\* steps of NextLate are steps of Next and the steps of the sendRequests that
\* were abandoned, which Next leaves out: they change nothing but the
\* abandoned exchange.
Late ==
    [callers |-> {1, 2}, lists |-> {<<CustomModel(1)>>}, utterances |-> {Weather},
     statuses |-> {200}, outcomes |-> {WeatherTool},
     ticks |-> {MIN_INTERVAL}]

\* the chunks the tool server of Late sends in the response to request `id`
LateChunks(id) ==
    { <<Line(TRUE, "json", Message(id, FALSE, TRUE, <<GetWeather>>))>>,
      <<Line(TRUE, "json", Message(0, FALSE, TRUE, <<WebSearch>>))>> }

InitLate ==
    /\ now = MIN_INTERVAL
    /\ lastRequestTime = 0
    /\ queue = "fulfilled"
    /\ tasks = <<>>
    /\ call = [o \in Calls |-> InitCall]
    /\ env = Late
    /\ aiModels \in env.lists
    /\ probe = NoProbe

NextLate ==
    \/ \E o \in Calls, m \in Utterances : Start(o, m)
    \/ \E o \in Calls, st \in HttpStatuses : McpPostAnswered(o, st, TRUE)
    \/ \E o \in Calls : \E chunk \in LateChunks(call[o].rpc.id) : McpChunk(o, chunk)
    \/ \E o \in Calls : McpTimeout(o)
    \/ \E o \in Calls, st \in HttpStatuses : McpLateAnswered(o, st, TRUE)
    \/ \E o \in Calls : \E chunk \in LateChunks(call[o].abandoned.id) : McpLateChunk(o, chunk)
    \/ \E j \in 1..NumCalls : SpacingElapsed(j)
    \/ \E j \in 1..NumCalls, out \in ModelOutcomes : ModelSettle(j, out)
    \/ \E o \in Calls : OuterTimeout(o)
    \/ \E d \in Delays : Tick(d)

SpecLate == InitLate /\ [][NextLate]_vars

\* one call, a model API that asks for two tools, answers with a text, with
\* or without asking for a tool, or fails; a tool server that answers in
\* every way
TwoTools ==
    Outcome("reply", 200, "", <<>>,
            [content |-> <<>>,
             tool_calls |-> <<ToolCall("get_weather", TRUE), ToolCall("web_search", TRUE)>>])

TextAndTool ==
    Outcome("reply", 200, "", <<>>,
            [content |-> <<" ", "sunny">>, tool_calls |-> <<ToolCall("web_search", TRUE)>>])

Intents ==
    [callers |-> {1}, lists |-> {<<CustomModel(1)>>}, utterances |-> {Weather},
     statuses |-> {0, 200, 405},
     outcomes |-> {Hello, TwoTools, TextAndTool, ServerError},
     ticks |-> {MIN_INTERVAL}]

InitIntents ==
    /\ now = MIN_INTERVAL
    /\ lastRequestTime = 0
    /\ queue = "fulfilled"
    /\ tasks = <<>>
    /\ call = [o \in Calls |-> InitCall]
    /\ env = Intents
    /\ aiModels \in env.lists
    /\ probe = NoProbe

NextIntents ==
    \/ \E o \in Calls, m \in Utterances : Start(o, m)
    \/ \E o \in Calls, st \in HttpStatuses, b \in BOOLEAN : McpPostAnswered(o, st, b)
    \/ \E o \in Calls, st \in HttpStatuses, b \in BOOLEAN : McpGetAnswered(o, st, b)
    \/ \E o \in Calls : \E chunk \in Chunks(call[o].rpc.id) : McpChunk(o, chunk)
    \/ \E o \in Calls : McpStreamEnd(o)
    \/ \E o \in Calls : McpTimeout(o)
    \/ \E j \in 1..NumCalls : SpacingElapsed(j)
    \/ \E j \in 1..NumCalls, out \in Intents.outcomes : ModelSettle(j, out)
    \/ \E o \in Calls : OuterTimeout(o)
    \/ \E d \in Delays : Tick(d)

SpecIntents == InitIntents /\ [][NextIntents]_vars

\* concurrent calls and a model API that never answers: the HTTP call of the
\* task that is dispatched never settles (fetch has no timeout, ai.ts:188).
\* Timers that are due fire and the clock moves on.
NextStuck ==
    \/ \E o \in Calls, m \in Utterances : Start(o, m)
    \/ \E o \in Calls, st \in HttpStatuses, b \in BOOLEAN : McpPostAnswered(o, st, b)
    \/ \E o \in Calls : McpTimeout(o)
    \/ \E o \in Calls : OuterTimeout(o)
    \/ \E d \in Delays : Tick(d)

FairStuck ==
    /\ \A o \in Calls : WF_vars(McpTimeout(o))
    /\ \A o \in Calls : WF_vars(OuterTimeout(o))
    /\ WF_vars(\E d \in Delays : Tick(d))

\* the timers of the program fire when they are due and the clock moves on
FairTimers == FairStuck /\ \A j \in 1..NumCalls : WF_vars(SpacingElapsed(j))

SpecStuck == InitQueue /\ [][NextStuck]_vars /\ FairStuck

\* the router on custom lists in any order: the lists of two models, in the
\* order of their priorities and against it
Shuffled ==
    [callers |-> {1},
     lists |-> { <<CustomModel(1), CustomModel(2)>>, <<CustomModel(2), CustomModel(1)>> },
     utterances |-> {Weather}, statuses |-> {0},
     outcomes |-> {Hello, RateLimited, ServerError}, ticks |-> {MIN_INTERVAL}]

InitPriority ==
    /\ now = MIN_INTERVAL
    /\ lastRequestTime = 0
    /\ queue = "fulfilled"
    /\ tasks = <<>>
    /\ call = [o \in Calls |-> InitCall]
    /\ env = Shuffled
    /\ aiModels \in env.lists
    /\ probe = NoProbe

SpecPriority == InitPriority /\ [][NextUnreachable]_vars

\* ----------------------------------------------- the read loop on its own
\* mcp_client.ts:441-476 the read loop of one request (id 1) on a response
\* body that the network delivers in chunks of any length
StreamProbe(stream) ==
    [kind |-> "stream", id |-> 1, stream |-> stream, rest |-> stream,
     chunks |-> 0, done |-> FALSE, found |-> FALSE, result |-> NoMessage]

Quiet ==
    /\ now = MIN_INTERVAL
    /\ lastRequestTime = 0
    /\ queue = "fulfilled"
    /\ tasks = <<>>
    /\ call = [o \in Calls |-> InitCall]
    /\ env = Tools
    /\ aiModels \in env.lists

InitParser ==
    /\ Quiet
    /\ probe \in { StreamProbe(stream) : stream \in Streams(MaxFrames) }

\* mcp_client.ts:446-470 reader.read() yields the next n pieces of the body
ReadChunk(n) ==
    /\ probe.kind = "stream"
    /\ ~probe.done
    /\ n \in 1..Len(probe.rest)
    /\ LET chunk == SubSeq(probe.rest, 1, n)
           parsed == ParseChunk(DecodeChunk(chunk, probe.id), probe.id)
       IN  probe' = [probe EXCEPT !.rest = SubSeq(@, n + 1, Len(@)),
                                  !.chunks = @ + 1,
                                  !.done = parsed.found,
                                  !.found = parsed.found,
                                  !.result = parsed.msg]
    /\ UNCHANGED <<now, lastRequestTime, queue, tasks, call, aiModels, env>>

\* mcp_client.ts:446-447,474-476 reader.read() reports the end of the body
ReadEnd ==
    /\ probe.kind = "stream"
    /\ ~probe.done
    /\ probe.rest = <<>>
    /\ probe' = [probe EXCEPT !.done = TRUE]
    /\ UNCHANGED <<now, lastRequestTime, queue, tasks, call, aiModels, env>>

NextParser ==
    \/ \E n \in 1..(7 * MaxFrames) : ReadChunk(n)
    \/ ReadEnd

SpecParser == InitParser /\ [][NextParser]_vars

\* ----------------------------------------------- the selector on its own
\* ai.ts:77-123 selectToolCategory and filterTools on catalogs of up to
\* MaxCatalog tools.  A catalog is grown one tool at a time; `matches` of its
\* tools carry a keyword of a selected category, laid out by `shape`: at the
\* front, at the back of the largest catalog, or two out of three from the
\* front.
WritePython == [text |-> "write a python script", kws |-> {"python", "script"}]

Shapes == {"front", "back", "spread"}

MatchCounts == {0, 15, 19, 20, 40, 59, 60, 61, MaxCatalog}

CatalogProbe(message, shape, matches) ==
    [kind |-> "catalog", message |-> message, shape |-> shape, matches |-> matches,
     tools |-> <<>>, filtered |-> FALSE, result |-> <<>>]

InitSelector ==
    /\ Quiet
    /\ probe \in { CatalogProbe(m, sh, k) :
                      m \in {Weather, WritePython}, sh \in Shapes, k \in MatchCounts }

\* is the tool at position i one of the matching ones?
MatchAt(i, shape, matches) ==
    CASE shape = "front" -> i <= matches
      [] shape = "back"  -> i > MaxCatalog - matches
      [] OTHER           -> i % 3 # 0 /\ i - (i \div 3) <= matches

\* the tool at position i: its name is its position
ToolAt(i, matching, categories) ==
    [name |-> ToString(i),
     kws  |-> IF matching
              THEN LET cat == CHOOSE c \in categories : TRUE
                   IN  {CHOOSE kw \in TOOL_CATEGORIES[cat] : TRUE}
              ELSE {"photo"}]

\* the tool server's catalog has one more tool
AddTool ==
    /\ probe.kind = "catalog"
    /\ Len(probe.tools) < MaxCatalog
    /\ LET i == Len(probe.tools) + 1
           tool == ToolAt(i, MatchAt(i, probe.shape, probe.matches),
                          selectToolCategory(probe.message))
       IN  probe' = [probe EXCEPT !.tools = Append(@, tool),
                                  !.filtered = FALSE, !.result = <<>>]
    /\ UNCHANGED <<now, lastRequestTime, queue, tasks, call, aiModels, env>>

\* ai.ts:290-293 filterTools(allTools, selectToolCategory(userMessage))
FilterCatalog ==
    /\ probe.kind = "catalog"
    /\ ~probe.filtered
    /\ probe' = [probe EXCEPT
                    !.filtered = TRUE,
                    !.result = filterTools(probe.tools, selectToolCategory(probe.message))]
    /\ UNCHANGED <<now, lastRequestTime, queue, tasks, call, aiModels, env>>

NextSelector == AddTool \/ FilterCatalog

SpecSelector == InitSelector /\ [][NextSelector]_vars

\* -------------------------------------- the category selector on its own
\* ai.ts:77-95 selectToolCategory on user messages of up to MaxWords words
WordsProbe ==
    [kind |-> "utterance", words |-> <<>>, selected |-> FALSE, result |-> {}]

InitCategories ==
    /\ Quiet
    /\ probe = WordsProbe

\* the user types one more word
AddWord(w) ==
    /\ probe.kind = "utterance"
    /\ Len(probe.words) < MaxWords
    /\ probe' = [probe EXCEPT !.words = Append(@, w), !.selected = FALSE, !.result = {}]
    /\ UNCHANGED <<now, lastRequestTime, queue, tasks, call, aiModels, env>>

\* ai.ts:290 selectToolCategory(userMessage)
SelectCategories ==
    /\ probe.kind = "utterance"
    /\ ~probe.selected
    /\ probe' = [probe EXCEPT !.selected = TRUE,
                               !.result = selectToolCategory(Utterance(probe.words))]
    /\ UNCHANGED <<now, lastRequestTime, queue, tasks, call, aiModels, env>>

NextCategories ==
    \/ \E w \in Words : AddWord(w)
    \/ SelectCategories

SpecCategories == InitCategories /\ [][NextCategories]_vars

\* ------------------------------------------------------------- properties
ModelNames == [i \in DOMAIN Models |-> Models[i].name]

IsPrefix(s, t) == Len(s) <= Len(t) /\ SubSeq(t, 1, Len(s)) = s

EndsWith(s, t) == Len(t) <= Len(s) /\ SubSeq(s, Len(s) - Len(t) + 1, Len(s)) = t

\* the tasks of call o that are in the queue
TasksOf(o) == { j \in DOMAIN tasks : tasks[j].call = o }

\* the tasks that are executing: in the spacing wait or performing the request
Executing == { j \in DOMAIN tasks : tasks[j].status \in {"sleep", "fetch"} }

\* the error callAIWithQueue or the loop builds for an HTTP call that ended `out`
AttemptError(name, out) ==
    CASE out.kind = "neterr"  -> out.text
      [] out.kind = "http"    -> <<"AI API error", ToString(out.status)>> \o out.text
      [] out.kind = "badjson" -> <<"SyntaxError">>
      [] OTHER                -> <<"model", name, "error">> \o out.text

\* C1: getAIResponse never throws and never stays pending: whatever the tool
\* server and the model API do, the promise it returned is fulfilled with a
\* text by the time its 60 s timer is due; a call settled by the timer, and a
\* call whose mainTask failed, returned the fixed fallback text.
C1_AlwaysAnswers ==
    \A o \in Calls :
        /\ call[o].ret.kind \in {"pending", "value"}
        /\ (call[o].pc # "idle" /\ call[o].ret.kind = "pending") => now <= call[o].deadline
        /\ (call[o].pc # "idle" /\ now > call[o].deadline) => call[o].ret.kind = "value"
        /\ call[o].timedOut => call[o].ret = Value(FALLBACK)
        /\ (call[o].main.kind = "error" /\ ~call[o].timedOut) => call[o].ret = Value(FALLBACK)

\* the 60 s timer settled a call whose model request hangs, and time went on
C1_Witness ==
    \E o \in Calls :
        /\ call[o].timedOut
        /\ call[o].main.kind = "pending"
        /\ call[o].ret = Value(FALLBACK)
        /\ now > call[o].deadline

\* C2: when every attempt of callAIWithFallback ended with a rate-limit signal
\* and the call has settled, it attempted every model of the list once, in the
\* order of the list, and failed with the aggregate error, which names the
\* cause of the last attempt.
C2_AllRateLimited ==
    \A o \in Calls :
        /\ IsPrefix(call[o].attempts, ModelNames)
        /\ (call[o].routed.kind # "pending" /\ call[o].allLimited) =>
              /\ call[o].attempts = ModelNames
              /\ call[o].routed = Failure(AllModelsFailed(call[o].lastError))
              /\ EndsWith(call[o].routed.val, call[o].lastOut.text)

\* C3: when the HTTP call of the k-th model succeeds, callAIWithFallback has
\* attempted exactly the first k models, returns the response of model k and
\* leaves no attempt in the queue.
C3_FirstSuccessWins ==
    \A o \in Calls :
        call[o].lastOut.kind = "reply" =>
            /\ call[o].verdict = "return"
            /\ call[o].attempts = SubSeq(ModelNames, 1, call[o].idx)
            /\ call[o].routed = Text(<<>>)
            /\ call[o].from = Models[call[o].idx].name
            /\ \A j \in TasksOf(o) : tasks[j].round # call[o].round

\* the second model of a longer list answered after the first was rate-limited
C3_Witness ==
    \E o \in Calls :
        /\ call[o].lastOut.kind = "reply"
        /\ call[o].idx = 2
        /\ call[o].lastError # <<>>
        /\ Len(Models) > 2
        /\ call[o].from = Models[2].name

C5_SignalAdvances ==
    \A o \in Calls :
        RateLimitSignal(call[o].lastOut) => call[o].verdict = "next"

\* C6: tasks are dispatched in the order they were enqueued: every task
\* enqueued before a dispatched task has been dispatched.
C6_Fifo ==
    \A i, j \in DOMAIN tasks :
        (i < j /\ tasks[j].status = "fetch") => tasks[i].status = "fetch"

\* a task of one call was dispatched after the task of another call, enqueued
\* before it, had settled
C6_Witness ==
    \E j \in DOMAIN tasks :
        /\ tasks[j].status = "fetch"
        /\ tasks[j].behind # "none"
        /\ \E o \in Calls : o # tasks[j].call /\ call[o].round > 0

\* identity of a task of the queue
TaskId(task) == <<task.call, task.round, task.model>>

Dispatched(q) == { TaskId(q[j]) : j \in { i \in DOMAIN q : q[i].status = "fetch" } }

\* C7: a task is dispatched no sooner than MIN_INTERVAL after the previous
\* dispatch, and the dispatch writes lastRequestTime; a task that starts
\* MIN_INTERVAL or more after the previous dispatch is dispatched at once, a
\* task that starts sooner waits until MIN_INTERVAL after the previous dispatch.
C7_DispatchSpacing ==
    (Dispatched(tasks') \ Dispatched(tasks) # {}) =>
        /\ now' = now
        /\ now - lastRequestTime >= MIN_INTERVAL
        /\ lastRequestTime' = now

C7_StartOfSuccessor ==
    (Len(tasks) >= 2 /\ tasks' # <<>> /\ tasks[2].status = "chained"
        /\ TaskId(tasks'[1]) = TaskId(tasks[2])) =>
        IF now - lastRequestTime >= MIN_INTERVAL
        THEN tasks'[1].status = "fetch"
        ELSE /\ tasks'[1].status = "sleep"
             /\ tasks'[1].wakeAt = lastRequestTime + MIN_INTERVAL

C7_Waiting ==
    \A j \in DOMAIN tasks :
        tasks[j].status = "sleep" =>
            /\ tasks[j].wakeAt = lastRequestTime + MIN_INTERVAL
            /\ now <= tasks[j].wakeAt

C7_Spacing ==
    /\ []C7_Waiting
    /\ [][C7_DispatchSpacing /\ C7_StartOfSuccessor]_vars

\* a task was dispatched at the end of a spacing wait that began when the task
\* before it settled
C7_Witness ==
    \E j \in DOMAIN tasks :
        /\ tasks[j].status = "fetch"
        /\ tasks[j].behind # "none"
        /\ tasks[j].wakeAt = lastRequestTime
        /\ tasks[j].wakeAt = now

\* C8: at most one task of the queue is executing (in its spacing wait or
\* performing its request), and it is the oldest: a task starts only after
\* the tasks enqueued before it have settled.
C8_OneAtATime ==
    /\ Cardinality(Executing) <= 1
    /\ \A j \in Executing : j = 1

\* two calls have a task in the queue; the second waits for the first
C8_Witness ==
    /\ Len(tasks) = 2
    /\ tasks[1].call # tasks[2].call
    /\ tasks[1].status = "sleep"
    /\ tasks[2].status = "chained"

\* C9: a task that rejects does not poison the queue: no task's promise is
\* rejected without the task running, the oldest task of the queue is always
\* executing, and the chain never ends in a rejected promise; the rejection
\* reaches the call that enqueued the task and no other call.
C9_QueueHealthy ==
    /\ queue # "rejected"
    /\ \A j \in DOMAIN tasks : tasks[j].status # "rejected"
    /\ tasks # <<>> => tasks[1].status \in {"sleep", "fetch"}

C9_OwnCaller ==
    \A j \in DOMAIN tasks :
        (tasks[j].status = "fetch"
            /\ TaskId(tasks[j]) \notin { TaskId(tasks'[i]) : i \in DOMAIN tasks' }) =>
            \A p \in Calls \ {tasks[j].call} : call'[p] = call[p]

C9_NoPoison == []C9_QueueHealthy /\ [][C9_OwnCaller]_vars

\* the task of one call is dispatched after the task before it rejected, while
\* the call of the rejected task goes on
C9_Witness ==
    \E j \in DOMAIN tasks :
        /\ tasks[j].status = "fetch"
        /\ tasks[j].behind = "rejected"
        /\ \E o \in Calls : o # tasks[j].call /\ call[o].lastOut = RateLimited

\* the ways a tools/list request fails
DiscoveryFailures == {"neterr", "http", "nobody", "timeout", "nomatch", "rpcerror", "notools"}

\* C10: listTools never fails: when the tools/list request fails in any way,
\* listTools returns the empty catalog and getAIResponse goes on to the model
\* call, which it sends without tools; mainTask never fails before that call.
C10_DiscoveryNeverFails ==
    \A o \in Calls :
        /\ call[o].discovery \in DiscoveryFailures =>
              /\ call[o].listed
              /\ call[o].zhipuTools = <<>>
              /\ call[o].round >= 1
              /\ call[o].round = 1 => ~call[o].requestBody.hasTools
        /\ call[o].main.kind = "error" => call[o].round >= 1

\* the tool server answers with an RPC error and the model request is in flight
C10_Witness ==
    \E o \in Calls :
        /\ call[o].discovery = "rpcerror"
        /\ call[o].pc = "model"
        /\ \E j \in TasksOf(o) : tasks[j].status = "fetch"

\* the tools/call request of call o has failed: sendRequest rejected, or the
\* response carried an error
ToolFailed(o) ==
    /\ call[o].toolCalls > 0
    /\ \/ call[o].toolResult.kind \in {"neterr", "http", "nobody", "nomatch", "timeout"}
       \/ call[o].toolResult.kind = "message" /\ call[o].toolResult.msg.isError

\* C11: a tool invocation that fails (RPC error, HTTP or network error, missing
\* response, 30 s timeout) is not thrown to the caller: the second model
\* request is submitted with an error payload in its tool turn, and mainTask
\* does not fail before that request settles.
C11_ToolFailureFedBack ==
    \A o \in Calls :
        ToolFailed(o) =>
            /\ call[o].round = 2
            /\ Len(call[o].attempts) >= 1
            /\ Len(call[o].requestBody.messages) = 3
            /\ call[o].requestBody.messages[3].role = "tool"
            /\ Head(call[o].requestBody.messages[3].content) = "error"
            /\ call[o].main.kind = "error" => call[o].routed.kind # "pending"
            /\ call[o].ret.kind # "thrown"

\* the tool invocation timed out, the second request was answered and its
\* text was returned
C11_Witness ==
    \E o \in Calls :
        /\ ToolFailed(o)
        /\ call[o].toolResult.kind = "timeout"
        /\ call[o].requestBody.messages[3].content = <<"error", "timeout">>
        /\ call[o].main.kind = "text"
        /\ call[o].ret = Value(call[o].main.val)

\* C12: a call whose first reply carries a tool-invocation intent discovers,
\* sends the first model request, invokes the tool and sends the second model
\* request, in this order; the second request holds the user's message, the
\* intent and the tool's result or error payload; the text of the second
\* reply, trimmed, is what mainTask returns, and what getAIResponse returns
\* unless its timer fired first.
C12_ToolRoundTrip ==
    \A o \in Calls :
        /\ IsPrefix(call[o].events, <<"discover", "model", "tool", "model">>)
        /\ call[o].toolCalls > 0 => IsPrefix(<<"discover", "model", "tool">>, call[o].events)
        /\ call[o].round = 2 =>
              /\ call[o].events = <<"discover", "model", "tool", "model">>
              /\ call[o].requestBody.messages =
                    << [role |-> "user", content |-> call[o].userMessage.text],
                       [role |-> "assistant", content |-> call[o].intent],
                       [role |-> "tool",
                        content |-> IF ToolFailed(o)
                                    THEN <<"error", Discovery(call[o].toolResult)>>
                                    ELSE <<"result">>] >>
              /\ call[o].main.kind = "text" =>
                    /\ call[o].lastOut.kind = "reply"
                    /\ call[o].main.val = Trim(call[o].lastOut.reply.content)
                    /\ ~call[o].timedOut => call[o].ret = Value(call[o].main.val)

\* the tool was invoked with success and the second reply's text was returned
C12_Witness ==
    \E o \in Calls :
        /\ call[o].round = 2
        /\ ~ToolFailed(o)
        /\ call[o].intent = <<ToolCall("get_weather", TRUE)>>
        /\ call[o].lastOut.reply.content = <<" ", "hello", " ">>
        /\ call[o].ret = Value(<<"hello">>)

\* C13: when the first reply carries text and no tool-invocation intent, that
\* text (trimmed) is the result of mainTask: the call made one logical model
\* request, invoked no tool and submits no second request.
C13_TextIsFinal ==
    \A o \in Calls :
        (/\ call[o].round = 1
         /\ call[o].lastOut.kind = "reply"
         /\ call[o].lastOut.reply.tool_calls = <<>>
         /\ call[o].lastOut.reply.content # <<>>) =>
            /\ call[o].pc = "done"
            /\ call[o].main = Text(Trim(call[o].lastOut.reply.content))
            /\ ~call[o].timedOut => call[o].ret = Value(call[o].main.val)
            /\ call[o].events = <<"discover", "model">>
            /\ call[o].toolCalls = 0
            /\ call[o].rpc.method = "tools/list"
            /\ TasksOf(o) = {}

\* tools were offered, the model answered with a text, the text was returned
C13_Witness ==
    \E o \in Calls :
        /\ call[o].round = 1
        /\ call[o].requestBody.hasTools
        /\ call[o].lastOut.reply.content = <<" ", "hello", " ">>
        /\ call[o].ret = Value(<<"hello">>)

\* call o has failed: its timer fired first, or mainTask was rejected
HasFailed(o) == call[o].timedOut \/ call[o].main.kind = "error"

RECURSIVE TokensOf(_)
TokensOf(text) == IF text = <<>> THEN {} ELSE {Head(text)} \cup TokensOf(Tail(text))

\* C14: whatever made a call fail (a fatal model error, every model rate
\* limited, a reply without text or with broken arguments, the 60 s timer),
\* getAIResponse returns the same fixed text: any two failed calls returned
\* equal values, and the value holds no piece of any error's text.
C14_FallbackTellsNothing ==
    \A o \in Calls :
        HasFailed(o) =>
            /\ call[o].ret = Value(FALLBACK)
            /\ \A p \in Calls : HasFailed(p) => call[p].ret = call[o].ret
            /\ TokensOf(call[o].ret.val) \cap
                  (TokensOf(call[o].lastError) \cup TokensOf(call[o].lastOut.text)
                   \cup TokensOf(call[o].main.val) \cup TokensOf(call[o].routed.val)
                   \cup {"AI call timed out"}) = {}

\* one call failed because every model was rate limited, another because its
\* timer fired
C14_Witness ==
    \E o, p \in Calls :
        /\ call[o].main.kind = "error" /\ ~call[o].timedOut
        /\ Head(call[o].main.val) = "all models unavailable"
        /\ call[p].timedOut
        /\ call[o].ret = call[p].ret

\* C15: when discovery yields an empty catalog (it timed out, failed or found
\* nothing), the first model request carries no tools, no tool is invoked
\* and no second model request is submitted: the reply is returned directly.
C15_NoToolsNoRoundTrip ==
    \A o \in Calls :
        (call[o].listed /\ call[o].zhipuTools = <<>>) =>
            /\ call[o].round = 1
            /\ ~call[o].requestBody.hasTools
            /\ call[o].requestBody.tools = <<>>
            /\ call[o].toolCalls = 0
            /\ call[o].events = <<"discover", "model">>

\* C16 as stated: every request of the protocol client ends in exactly one of
\* two ways, with a matched response or with the timeout error.
C16_ResponseOrTimeout ==
    \A o \in Calls :
        /\ call[o].rpc.race = "pending" => now <= call[o].rpc.deadline
        /\ call[o].rpc.race = "settled" =>
              /\ call[o].rpc.deliveries = 1
              /\ call[o].rpc.outcome \in {"message", "timeout"}

\* the ways a request can end: with a matched response, with the timeout
\* error, or with a transport error (the network, a non-OK status, a response
\* without a body, a stream that ends without a matching message)
RpcOutcomes == {"message", "timeout", "neterr", "http", "nobody", "nomatch"}

C16_OneOutcome ==
    \A o \in Calls :
        /\ call[o].rpc.race = "pending" =>
              /\ now <= call[o].rpc.deadline
              /\ call[o].rpc.deliveries = 0
              /\ call[o].rpc.outcome = "none"
        /\ call[o].rpc.race = "settled" =>
              /\ call[o].rpc.deliveries = 1
              /\ call[o].rpc.outcome \in RpcOutcomes
              /\ call[o].rpc.outcome = "message" => call[o].rpc.phase = "closed"

\* the outcome of a settled request never changes
C16_OutcomeStays ==
    \A o \in Calls :
        (call[o].rpc.race = "settled" /\ call'[o].rpc.id = call[o].rpc.id
            /\ call'[o].pc # "idle") =>
            /\ call'[o].rpc.outcome = call[o].rpc.outcome
            /\ call'[o].rpc.deliveries = call[o].rpc.deliveries

\* C16 (amended): every request of the protocol client ends in exactly one
\* way, with a matched response, the timeout error or a transport error, by
\* the time its 30 s timer is due; what arrives later does not change it.
C16_ExactlyOneOutcome == []C16_OneOutcome /\ [][C16_OutcomeStays]_vars

\* the timer settled a request and the stream of the request was read
\* to its end afterwards
C16_Witness ==
    \E o \in Calls :
        /\ call[o].rpc.outcome = "timeout"
        /\ call[o].rpc.phase = "closed"
        /\ call[o].rpc.deliveries = 1

\* a line of a chunk that carries a decoded message
Decoded(line) == line.data /\ line.kind = "json"

\* a decoded message the read loop of request `id` takes as the response
Accepted(line, id) == Decoded(line) /\ line.msg.id \in {0, id}

\* C17: while the stream of a request is read, a decoded message whose id is
\* another request's is passed over and reading goes on; a decoded message
\* without an id is taken as the match; the first message taken is what the
\* request returns.
C17_IdMatching ==
    \A o \in Calls :
        LET r == call[o].rpc
        IN  /\ r.phase = "stream" =>
                  \A i \in DOMAIN r.read : ~Accepted(r.read[i], r.id)
            /\ r.outcome = "message" =>
                  \E i \in DOMAIN r.read :
                      /\ Accepted(r.read[i], r.id)
                      /\ r.result = r.read[i].msg
                      /\ \A k \in 1..(i - 1) :
                             Decoded(r.read[k]) => r.read[k].msg.id \notin {0, r.id}

\* a request returned a message without id that came after a message with
\* another request's id and before one with its own
C17_Witness ==
    \E o \in Calls :
        LET r == call[o].rpc
        IN  /\ r.outcome = "message"
            /\ Len(r.read) = 3
            /\ r.read[1].msg.id = r.id + 1
            /\ r.result.id = 0
            /\ r.result = r.read[2].msg
            /\ r.read[3].msg.id = r.id

\* what the read loop returns for the whole body of the probe in one chunk
WholeBody == ParseChunk(DecodeChunk(probe.stream, probe.id), probe.id)

\* C18: whatever the chunks a response body arrives in, cuts inside a
\* "data: " frame included, the read loop ends as it does on the same body
\* delivered as a single chunk: with the same matched response, or with none.
C18_ChunkingInvisible ==
    (probe.kind = "stream" /\ probe.done) =>
        /\ probe.found = WholeBody.found
        /\ probe.result = WholeBody.msg

\* the positions of the probe's catalog whose tool matches the selected categories
Matching ==
    { i \in DOMAIN probe.tools :
        ToolMatches(probe.tools[i], selectToolCategory(probe.message)) }

\* the positions of the probe's catalog whose tool is in the result
Kept == { i \in DOMAIN probe.tools : \E j \in DOMAIN probe.result :
                                          probe.result[j] = probe.tools[i] }

Min(a, b) == IF a <= b THEN a ELSE b

\* C19: when fewer than 20 tools of the catalog match the selected
\* categories, filterTools returns the first 50 tools of the catalog in catalog
\* order, matching or not (the whole catalog when it has fewer than 50); for
\* a catalog of 100 tools with 15 matches these are the tools 1..50.
C19_FewMatchesFirstFifty ==
    (probe.kind = "catalog" /\ probe.filtered /\ Cardinality(Matching) < 20) =>
        /\ Len(probe.result) = Min(50, Len(probe.tools))
        /\ \A j \in DOMAIN probe.result : probe.result[j] = probe.tools[j]

\* a catalog of 100 tools of which 15 match: the result is the tools 1..50,
\* tools that do not match among them
C19_Witness ==
    /\ probe.kind = "catalog"
    /\ probe.filtered
    /\ Len(probe.tools) = 100
    /\ Cardinality(Matching) = 15
    /\ Len(probe.result) = 50
    /\ probe.result[50] = probe.tools[50]
    /\ Kept \ Matching # {}

\* C20: when at least 20 tools match, filterTools returns the matching tools
\* in catalog order, cut to the first 60 of them: 40 matches are returned as
\* they are; and whatever the number of matches the result has at most 60
\* tools and is a subsequence of the catalog.
C20_MatchesCappedAtSixty ==
    (probe.kind = "catalog" /\ probe.filtered) =>
        LET catalog == probe.tools
            result == probe.result
            matching == Matching
            \* where in the catalog the tools of the result are
            pos == [j \in DOMAIN result |->
                       CHOOSE i \in DOMAIN catalog : catalog[i] = result[j]]
            kept == { pos[j] : j \in DOMAIN result }
        IN  /\ Len(result) <= 60
            /\ \A j \in DOMAIN result : \E i \in DOMAIN catalog : catalog[i] = result[j]
            /\ \A j \in 1..(Len(result) - 1) : pos[j] < pos[j + 1]
            /\ Cardinality(matching) >= 20 =>
                   /\ kept \subseteq matching
                   /\ Len(result) = Min(60, Cardinality(matching))
                   /\ \A i \in matching \ kept : pos[Len(result)] < i
                   /\ Cardinality(matching) = 40 => kept = matching

\* a catalog of 100 tools of which 40, spread over it, match: the result is
\* those 40
C20_Witness ==
    /\ probe.kind = "catalog"
    /\ probe.filtered
    /\ probe.shape = "spread"
    /\ Len(probe.tools) = 100
    /\ Cardinality(Matching) = 40
    /\ Len(probe.result) = 40
    /\ Kept = Matching

\* the categories with a keyword that occurs in the lower-cased words of the probe
Matched ==
    { cat \in Categories :
        \E i \in DOMAIN probe.words : \E kw \in TOOL_CATEGORIES[cat] :
            kw \in KeywordsIn(toLowerCase(probe.words[i])) }

\* C21: selectToolCategory returns exactly the categories with a keyword that
\* occurs in the lower-cased message; it returns {search, general} if and
\* only if no category matches; its result is never empty.
C21_CategoriesIffDefault ==
    (probe.kind = "utterance" /\ probe.selected) =>
        /\ Matched # {} => probe.result = Matched
        /\ probe.result = {"search", "general"} <=> Matched = {}
        /\ probe.result # {}

\* C21 as the code has it: {search, general} is returned when no category
\* matches, and also when exactly these two match.
C21_CategoriesOrDefault ==
    (probe.kind = "utterance" /\ probe.selected) =>
        /\ Matched # {} => probe.result = Matched
        /\ Matched = {} => probe.result = {"search", "general"}
        /\ probe.result = {"search", "general"} =>
               Matched \in { {}, {"search", "general"} }
        /\ probe.result # {}

\* a message typed with capitals whose words hold keywords inside longer
\* words: "GitHub forget" selects code and general
C21_Witness ==
    /\ probe.kind = "utterance"
    /\ probe.selected
    /\ probe.words = <<"GitHub", "forget">>
    /\ probe.result = {"code", "general"}

\* what a call keeps between its steps and puts into its requests
OwnData(c) ==
    <<c.userMessage, c.mcpTools, c.zhipuTools, c.requestBody, c.intent, c.toolResult>>

\* the request body of call o holds the call's own message, the tools picked
\* from the catalog the call discovered itself and, in the second request,
\* the call's own tool intent and tool result
C22_OwnRequest ==
    \A o \in Calls :
        LET c == call[o]
            body == c.requestBody
        IN  body # NoBody =>
              /\ c.events[1] = "discover"
              /\ c.listed
              /\ (c.pc = "model" /\ c.round = 1) =>
                     c.mcpTools = IF c.discovery = "tools" THEN c.rpc.result.tools ELSE <<>>
              /\ body.tools = simplifyTools(filterTools(c.mcpTools,
                                                        selectToolCategory(c.userMessage)))
              /\ body.messages[1] = [role |-> "user", content |-> c.userMessage.text]
              /\ c.round = 1 => Len(body.messages) = 1
              /\ c.round = 2 =>
                     /\ Len(body.messages) = 3
                     /\ body.messages[2].role = "assistant"
                     /\ body.messages[2].content[1] = c.intent[1]
                     /\ body.messages[3] =
                            [role |-> "tool", content |-> ToolPayload(callTool(c.toolResult))]

\* a step changes what at most one call keeps
C22_OneCallAtATime ==
    Cardinality({ o \in Calls : OwnData(call'[o]) # OwnData(call[o]) }) <= 1

\* C22: the calls of getAIResponse share nothing: every model request of a
\* call holds only that call's message (and, in the second request, its own
\* tool intent and tool result), the tools offered come from the catalog the
\* call discovered itself, and a step of one call leaves what the other calls
\* keep as it was.
C22_Stateless == []C22_OwnRequest /\ [][C22_OneCallAtATime]_vars

\* two calls in flight with different messages and different catalogs, one of
\* them in its second request
C22_Witness ==
    \E o, p \in Calls :
        /\ call[o].requestBody # NoBody
        /\ call[p].requestBody # NoBody
        /\ call[o].round = 2
        /\ call[p].round = 1
        /\ call[p].pc = "model"
        /\ call[o].userMessage # call[p].userMessage
        /\ call[o].mcpTools # call[p].mcpTools
        /\ call[o].requestBody.messages[1] # call[p].requestBody.messages[1]

Aggregate(c) ==
    c.routed.kind = "error" /\ Head(c.routed.val) = Head(AllModelsFailed(<<>>))

PlaceOf(name) == (CHOOSE i \in DOMAIN Models : Models[i].name = name)

\* C24: whatever the order of the configured list, the models are attempted
\* in ascending priority value: a model is attempted only when every model of
\* the list with a lower priority value has been attempted before it.
C24_AscendingPriority ==
    \A o \in Calls :
        \A i \in DOMAIN call[o].attempts :
            \A k \in DOMAIN Models :
                Models[k].priority < Models[PlaceOf(call[o].attempts[i])].priority =>
                    \E h \in 1..(i - 1) : call[o].attempts[h] = Models[k].name

\* a text that is empty or made of blanks only
Blank(text) == text = <<>> \/ Trim(text) = <<>>

\* C25: the placeholder message is never edited with an empty or blank text:
\* when getAIResponse returns an empty or blank string the placeholder is
\* edited with the fixed warning, otherwise with the string returned; it is
\* edited once.
C25_NeverEditsBlank ==
    \A o \in Calls :
        /\ \A i \in DOMAIN call[o].edits : ~Blank(call[o].edits[i])
        /\ call[o].ret.kind = "pending" => call[o].edits = <<>>
        /\ call[o].ret.kind = "value" =>
               call[o].edits = <<IF Blank(call[o].ret.val)
                                 THEN EMPTY_REPLY_WARNING ELSE call[o].ret.val>>

\* getAIResponse returned the empty string (the model's reply was a blank)
\* and the placeholder carries the warning
C25_Witness ==
    \E o \in Calls :
        /\ call[o].ret = Value(<<>>)
        /\ call[o].lastOut.reply.content = <<" ">>
        /\ call[o].edits = <<EMPTY_REPLY_WARNING>>

\* the request of call o is the same before and after the step
SameRequest(o) ==
    /\ call[o].rpc.phase # "none"
    /\ call'[o].rpc.id = call[o].rpc.id
    /\ call'[o].rpc.method = call[o].rpc.method

\* a pending request has one timer, due 30 s after the request was issued and
\* not yet passed
C26_TimerArmed ==
    \A o \in Calls :
        call[o].rpc.race = "pending" =>
            /\ now <= call[o].rpc.deadline
            /\ call[o].rpc.phase \in {"post", "get", "stream"}

\* what a step does to the race of a request
C26_RaceStep ==
    \A o \in Calls :
        \* a request is issued with its timer 30 s ahead
        /\ (call'[o].rpc.race = "pending" /\ ~(call[o].rpc.race = "pending" /\ SameRequest(o))) =>
               /\ call'[o].rpc.deadline = now' + TIMEOUT
               /\ call'[o].rpc.phase = "post"
        \* the exchange goes on (POST, GET fallback, stream) under the same timer
        /\ (call[o].rpc.race = "pending" /\ call'[o].rpc.race = "pending" /\ SameRequest(o)) =>
               call'[o].rpc.deadline = call[o].rpc.deadline
        \* the timer decides only when it is due, the exchange only before that
        /\ (call[o].rpc.race = "pending" /\ call'[o].rpc.race = "settled" /\ SameRequest(o)) =>
               IF call'[o].rpc.outcome = "timeout"
               THEN now = call[o].rpc.deadline /\ call'[o].rpc.phase = call[o].rpc.phase
               ELSE now <= call[o].rpc.deadline /\ call'[o].rpc.phase = "closed"
        \* what arrives after the race was decided changes nothing but the
        \* state of the abandoned exchange
        /\ (call[o].rpc.race = "settled" /\ SameRequest(o)) =>
               /\ call'[o].rpc.outcome = call[o].rpc.outcome
               /\ call'[o].rpc.result = call[o].rpc.result
               /\ call'[o].rpc.phase # call[o].rpc.phase =>
                      [call'[o] EXCEPT !.rpc = call[o].rpc] = call[o]

FallbackStatuses == {400, 404, 405}

\* the HTTP requests of the exchange of call o and the answers they got
C27_Exchange ==
    \A o \in Calls :
        LET r == call[o].rpc
            post == [verb |-> "POST", id |-> r.id, method |-> r.method,
                     params |-> r.params]
            get  == [verb |-> "GET", id |-> r.id, method |-> r.method,
                     params |-> encodeURIComponent(r.params)]
        IN  r.phase # "none" =>
              /\ r.sent \in { <<post>>, <<post, get>> }
              /\ \A i \in DOMAIN r.sent :
                     decodeURIComponent(r.sent[i].params) = r.sent[1].params
              /\ Len(r.statuses) <= Len(r.sent)
              /\ r.sent = <<post, get>> <=>
                     (r.statuses # <<>> /\ r.statuses[1] \in FallbackStatuses)
              \* a POST answered with another non-OK status, or not at all: no GET
              /\ (r.statuses # <<>> /\ r.statuses[1] \notin FallbackStatuses \cup {200}) =>
                     /\ r.phase = "closed"
                     /\ r.outcome \in {IF r.statuses[1] = 0 THEN "neterr" ELSE "http",
                                        "timeout"}
              \* a GET answered with a non-OK status fails the call
              /\ (Len(r.statuses) = 2 /\ r.statuses[2] # 200) =>
                     /\ r.phase = "closed"
                     /\ r.outcome \in {IF r.statuses[2] = 0 THEN "neterr" ELSE "http",
                                        "timeout"}
              /\ r.phase = "post" <=> r.statuses = <<>>
              /\ r.phase = "get" <=>
                     (Len(r.statuses) = 1 /\ r.statuses[1] \in FallbackStatuses)

\* the GET is issued by the step in which the POST is answered
C27_FallbackStep ==
    \A o \in Calls :
        (SameRequest(o) /\ Len(call'[o].rpc.sent) > Len(call[o].rpc.sent)) =>
            /\ call[o].rpc.phase = "post"
            /\ call'[o].rpc.phase = "get"
            /\ call'[o].rpc.statuses = <<call'[o].rpc.statuses[1]>>
            /\ call'[o].rpc.statuses[1] \in FallbackStatuses

\* C27: a GET fallback with the method and the id of the request is attempted
\* once, and only when the POST was answered with 400, 404 or 405; any other
\* non-OK answer to the POST fails the call without a GET, a non-OK answer to
\* the GET fails the call, and a request issues at most two HTTP requests.
C27_GetFallback == []C27_Exchange /\ [][C27_FallbackStep]_vars

\* a tools/call request whose POST was answered with 405 and whose GET was
\* answered with 500
C27_Witness ==
    \E o \in Calls :
        /\ call[o].rpc.method = "tools/call"
        /\ call[o].rpc.params # <<>>
        /\ call[o].rpc.statuses = <<405, 500>>
        /\ Len(call[o].rpc.sent) = 2
        /\ call[o].rpc.outcome = "http"

\* the message call o's sendRequest returned was read from the response to
\* its own HTTP request
C28_OwnResponse ==
    \A o \in Calls :
        LET r == call[o].rpc
        IN  r.result # NoMessage =>
               ParseChunk(r.read, r.id) = [found |-> TRUE, msg |-> r.result]

\* the sendRequests of call o whose race was lost to the timer
TimedOut(o) ==
    { r \in {call[o].rpc, call[o].abandoned} : r.phase # "none" /\ r.outcome = "timeout" }

\* a step in which an exchange that timed out goes on changes the position
\* of that exchange and what it has read, and nothing else
C28_LateStepIsolated ==
    \A o \in Calls :
        /\ (call[o].abandoned.phase # "none" /\ call'[o].abandoned # call[o].abandoned) =>
               /\ call' = [call EXCEPT ![o].abandoned = call'[o].abandoned]
               /\ call'[o].abandoned.id = call[o].abandoned.id
               /\ UNCHANGED <<tasks, queue, lastRequestTime>>
        /\ (call[o].rpc \in TimedOut(o) /\ SameRequest(o) /\ call'[o].rpc # call[o].rpc) =>
               /\ call'[o].rpc.result = NoMessage
               /\ call' = [call EXCEPT ![o].rpc = call'[o].rpc]
               /\ UNCHANGED <<tasks, queue, lastRequestTime>>

\* C28: a response to a sendRequest that timed out is never returned as the
\* result of a later sendRequest, whatever ids the responses carry.
C28_NoCrossTalk == []C28_OwnResponse /\ [][C28_LateStepIsolated]_vars

\* the tools/list request timed out and its response, a message without id,
\* arrived after the tools/call request was sent; the tools/call request
\* returned another message, and the client of another call is waiting for
\* the response to a request with the same id
C28_Witness ==
    \E o \in Calls :
        LET late == ParseChunk(call[o].abandoned.read, call[o].abandoned.id)
        IN  /\ call[o].abandoned.outcome = "timeout"
            /\ call[o].abandoned.phase = "closed"
            /\ late.found
            /\ late.msg.id = 0
            /\ call[o].rpc.method = "tools/call"
            /\ call[o].rpc.result # NoMessage
            /\ call[o].rpc.result # late.msg
            /\ \E p \in Calls \ {o} :
                   /\ call[p].rpc.id = call[o].rpc.id
                   /\ call[p].rpc.race = "pending"

\* the tasks of the queue, by identity, in the order of the chain
ChainOf(ts) == [j \in DOMAIN ts |-> TaskId(ts[j])]

\* while a task is in its spacing wait (it has read lastRequestTime and has
\* not yet written it), lastRequestTime is written by that task only, and no
\* other task starts
C29_CriticalSection ==
    \A j \in DOMAIN tasks :
        tasks[j].status = "sleep" =>
            /\ j \in DOMAIN tasks'
            /\ TaskId(tasks'[j]) = TaskId(tasks[j])
            /\ \/ /\ tasks'[j].status = "sleep"
                  /\ lastRequestTime' = lastRequestTime
               \/ /\ tasks'[j].status = "fetch"
                  /\ now' = now
                  /\ now = tasks[j].wakeAt
                  /\ lastRequestTime' = now
            /\ \A k \in DOMAIN tasks' \ {j} : tasks'[k].status = "chained"

\* lastRequestTime is written only by the step that dispatches the oldest
\* task of the chain, with the time of the dispatch
C29_WriterOfTime ==
    (now' = now /\ lastRequestTime' # lastRequestTime) =>
        /\ lastRequestTime' = now
        /\ tasks' # <<>>
        /\ tasks'[1].status = "fetch"
        /\ \A j \in DOMAIN tasks :
               TaskId(tasks[j]) = TaskId(tasks'[1]) => tasks[j].status # "fetch"
        /\ \A k \in DOMAIN tasks' \ {1} : tasks'[k].status = "chained"

\* the chain changes only at its ends: the task that settles leaves it, a
\* task that is enqueued in the step becomes its tail, behind the tail the
\* step found; no other task is added, dropped or moved
C29_WriterOfChain ==
    LET settled == { j \in DOMAIN tasks :
                        TaskId(tasks[j]) \notin { TaskId(tasks'[k]) : k \in DOMAIN tasks' } }
        kept    == SelectSeq(ChainOf(tasks),
                             LAMBDA id : id \in { TaskId(tasks'[k]) : k \in DOMAIN tasks' })
    IN  /\ \A j \in settled : tasks[j].status = "fetch"
        /\ Cardinality(settled) <= 1
        /\ \/ ChainOf(tasks') = kept
           \/ /\ Len(tasks') = Len(kept) + 1
              /\ SubSeq(ChainOf(tasks'), 1, Len(kept)) = kept
              /\ queue' = "pending"
              /\ kept # <<>> => tasks'[Len(tasks')].status = "chained"
        /\ queue' # queue => (ChainOf(tasks') # ChainOf(tasks))

RECURSIVE Count(_, _)
Count(events, e) ==
    IF events = <<>> THEN 0
    ELSE (IF Head(events) = e THEN 1 ELSE 0) + Count(Tail(events), e)

\* a call makes at most two model requests and at most one tool invocation,
\* and the second model request follows the tool invocation
C30_Bounded ==
    \A o \in Calls :
        LET c == call[o]
        IN  /\ c.round <= 2
            /\ c.toolCalls <= 1
            /\ Count(c.events, "model") = c.round
            /\ Count(c.events, "tool") = c.toolCalls
            /\ c.requestId <= 2
            /\ c.round = 2 => c.toolCalls = 1
            /\ c.pc = "tool" => (c.round = 1 /\ c.toolCalls = 1)

\* the tool invoked is the first entry of tool_calls of the first reply
C30_FirstEntry ==
    \A o \in Calls :
        LET c == call[o]
        IN  c.toolCalls = 1 =>
               /\ Len(c.intent) = 1
               /\ c.rpc.method = "tools/call"
               /\ c.rpc.params = c.intent
               /\ c.rpc.sent[1].params = c.intent
               /\ c.round = 1 => c.lastOut.reply.tool_calls[1] = c.intent[1]
               /\ c.round = 2 => c.requestBody.messages[2].content[1] = c.intent[1]

\* the second reply ends the call, whatever tool_calls it carries: its text
\* is returned, or the fallback text if it has none
C30_SecondReplyEnds ==
    \A o \in Calls :
        LET c == call[o]
        IN  (c.round = 2 /\ c.verdict = "return") =>
               /\ c.pc = "done"
               /\ c.toolCalls = 1
               /\ c.main = IF c.lastOut.reply.content = <<>>
                           THEN Failure(<<"no text in the AI response">>)
                           ELSE Text(Trim(c.lastOut.reply.content))
               /\ ~c.timedOut =>
                      c.ret = Value(IF c.lastOut.reply.content = <<>> THEN FALLBACK
                                    ELSE Trim(c.lastOut.reply.content))

\* C30: one getAIResponse call makes at most two model requests and at most
\* one tool invocation: only the first entry of tool_calls of the first reply
\* is invoked, and tool_calls in the second reply are not invoked: the second
\* reply's text is returned, or the fallback text if it has none.
C30_TwoRequestsOneTool == C30_Bounded /\ C30_FirstEntry /\ C30_SecondReplyEnds

\* the first reply asked for two tools, the first was invoked; the second
\* reply carried a text and asked for a tool again, and its text was returned
C30_Witness ==
    \E o \in Calls :
        LET c == call[o]
        IN  /\ c.pc = "done"
            /\ c.round = 2
            /\ Len(c.requestBody.messages[2].content) = 2
            /\ c.intent = <<ToolCall("get_weather", TRUE)>>
            /\ c.verdict = "return"
            /\ c.lastOut.reply.tool_calls # <<>>
            /\ c.ret = Value(<<"sunny">>)

\* while the model call in flight does not settle, no other task is
\* dispatched, and a call returns only by its 60 s timer, the fallback text
C31_QueueBlocked ==
    /\ \A j \in DOMAIN tasks : j > 1 => tasks[j].status = "chained"
    /\ \A o \in Calls :
          call[o].ret.kind # "pending" =>
              /\ call[o].ret = Value(FALLBACK)
              /\ call[o].timedOut
              /\ now >= call[o].deadline

\* no task leaves the queue: the task in flight stays at its head
C31_HeadStays ==
    \A j \in DOMAIN tasks :
        /\ j \in DOMAIN tasks'
        /\ TaskId(tasks'[j]) = TaskId(tasks[j])

\* every call that was started returns the fallback text
C31_EndsWithFallback ==
    \A o \in Calls : (call[o].pc # "idle") ~> (call[o].ret = Value(FALLBACK))

\* C31: a model call has no timeout of its own: while the HTTP call of the
\* dispatched task never settles, no task enqueued after it is dispatched,
\* and every call ends with the fallback text when its 60 s timer fires.
C31_StuckCallBlocksQueue ==
    []C31_QueueBlocked /\ [][C31_HeadStays]_vars /\ C31_EndsWithFallback

\* the task of one call is in flight, the task of another call is chained
\* behind it, and both calls have returned the fallback text
C31_Witness ==
    /\ Len(tasks) = 2
    /\ tasks[1].status = "fetch"
    /\ tasks[2].status = "chained"
    /\ tasks[1].call # tasks[2].call
    /\ \A j \in {1, 2} : call[tasks[j].call].ret = Value(FALLBACK)

\* what call o has returned stays as it is, whatever the call does afterwards
C32_ValueStays ==
    \A o \in Calls :
        call[o].ret.kind # "pending" =>
            /\ call'[o].ret = call[o].ret
            /\ call'[o].edits = call[o].edits
            /\ call'[o].timedOut = call[o].timedOut

\* the step in which the 60 s timer settles call o stops nothing: the call's
\* mainTask, its sendRequest and the queue are where they were
C32_NothingCancelled ==
    \A o \in Calls :
        (~call[o].timedOut /\ call'[o].timedOut) =>
            /\ UNCHANGED <<tasks, queue, lastRequestTime>>
            /\ call'[o].pc = call[o].pc
            /\ call'[o].main = call[o].main
            /\ call'[o].rpc = call[o].rpc
            /\ call'[o].ret = Value(FALLBACK)

\* a call that timed out goes on as one that did not: the tool its first
\* reply asks for is invoked, and the attempt that follows a settled one is
\* enqueued
C32_GoesOn ==
    \A o \in Calls :
        (call[o].timedOut /\ call[o].pc = "model" /\ call'[o].lastOut # call[o].lastOut) =>
            LET c == call'[o]
                reply == c.lastOut.reply
            IN  /\ (c.verdict = "return" /\ call[o].round = 1 /\ reply.tool_calls # <<>>
                        /\ reply.tool_calls[1].argsOk) =>
                       /\ c.pc = "tool"
                       /\ c.rpc.race = "pending"
                       /\ c.rpc.method = "tools/call"
                /\ c.verdict = "next" =>
                       (c.pc = "model" <=> \E j \in DOMAIN tasks' : tasks'[j].call = o)

\* the tasks of calls that timed out are served like the others: the head of
\* the chain is executing, whoever enqueued it
C32_StillServed ==
    tasks # <<>> => tasks[1].status \in {"sleep", "fetch"}

\* C32: after the 60 s timer made getAIResponse return the fallback text the
\* call goes on: nothing is cancelled, its model requests are still enqueued
\* and dispatched, the tool its reply asks for is still invoked, and none of
\* this changes the value that was returned.
C32_AbandonedKeepsRunning ==
    /\ []C32_StillServed
    /\ [][C32_ValueStays /\ C32_NothingCancelled /\ C32_GoesOn]_vars

\* a call timed out; its second model request was dispatched after that,
\* ahead of the request of another call, which waits behind it
C32_Witness ==
    \E o \in Calls :
        /\ call[o].timedOut
        /\ call[o].ret = Value(FALLBACK)
        /\ call[o].toolCalls = 1
        /\ tasks # <<>>
        /\ tasks[1].call = o
        /\ tasks[1].round = 2
        /\ tasks[1].status = "fetch"
        /\ lastRequestTime >= call[o].deadline
        /\ Len(tasks) = 2
        /\ tasks[2].call # o
        /\ tasks[2].status = "chained"

\* a call has at most one attempt in the queue, the attempt its loop is at
C33_OneAttemptAtATime ==
    \A o \in Calls :
        /\ Cardinality(TasksOf(o)) <= 1
        /\ \A j \in TasksOf(o) :
               /\ call[o].pc = "model"
               /\ tasks[j].round = call[o].round
               /\ tasks[j].model = call[o].idx

\* the step in which an attempt of call o fails with a rate limit enqueues
\* the next attempt at the tail of the chain, behind every task of the other
\* calls; it starts at once only if the chain is empty, and then it waits for
\* the rest of MIN_INTERVAL
C33_RetryAtTail ==
    \A o \in Calls :
        (call[o].pc = "model" /\ call'[o].pc = "model"
            /\ call'[o].round = call[o].round /\ call'[o].idx = call[o].idx + 1) =>
            LET n == Len(tasks')
            IN  /\ n >= 1
                /\ tasks'[n].call = o
                /\ tasks'[n].round = call[o].round
                /\ tasks'[n].model = call[o].idx + 1
                /\ \A j \in DOMAIN tasks :
                       tasks[j].call # o =>
                           \E k \in 1..(n - 1) : TaskId(tasks'[k]) = TaskId(tasks[j])
                /\ n > 1 => tasks'[n].status = "chained"
                /\ n = 1 =>
                       IF now - lastRequestTime >= MIN_INTERVAL
                       THEN tasks'[n].status = "fetch" /\ lastRequestTime' = now
                       ELSE /\ tasks'[n].status = "sleep"
                            /\ tasks'[n].wakeAt = lastRequestTime + MIN_INTERVAL

\* a retry is dispatched no sooner than MIN_INTERVAL after the dispatch
\* before it
C33_RetryPaysSpacing ==
    \A id \in Dispatched(tasks') \ Dispatched(tasks) :
        id[3] > 1 => now - lastRequestTime >= MIN_INTERVAL

\* C33: the attempts of a request are enqueued one at a time, each after the
\* attempt before it has failed: the retry of a rate-limited request goes to
\* the tail of the chain, behind the tasks other calls enqueued in the
\* meantime, and is dispatched with the MIN_INTERVAL spacing like any task.
C33_RetryGoesToTheBack ==
    []C33_OneAttemptAtATime /\ [][C33_RetryAtTail /\ C33_RetryPaysSpacing]_vars

\* the retry of a call waits behind the task another call enqueued while the
\* first attempt was in flight
C33_Witness ==
    /\ Len(tasks) = 2
    /\ tasks[1].call # tasks[2].call
    /\ tasks[1].model = 1
    /\ tasks[2].model = 2
    /\ tasks[2].status = "chained"
    /\ call[tasks[2].call].lastOut = RateLimited

\* two calls at a time, a list of two models, a tool server that answers each
\* request with a catalog, a model API that answers with a text, asks for a
\* tool or reports a rate limit; no timer of 30 s or 60 s fires
Failover ==
    [callers |-> {1, 2}, lists |-> {<<CustomModel(1), CustomModel(2)>>},
     utterances |-> {Weather}, statuses |-> {200},
     outcomes |-> {Hello, WeatherTool, RateLimited},
     ticks |-> {MIN_INTERVAL}]

InitFailover ==
    /\ now = MIN_INTERVAL
    /\ lastRequestTime = 0
    /\ queue = "fulfilled"
    /\ tasks = <<>>
    /\ call = [o \in Calls |-> InitCall]
    /\ env = Failover
    /\ aiModels \in env.lists
    /\ probe = NoProbe

SpecFailover == InitFailover /\ [][NextPair]_vars

\* the step in which a call begins a logical request (the first request, or
\* the second one of a tool round-trip) attempts the first model of the list
\* and enqueues a task for it
C34_StartsAtFirst ==
    \A o \in Calls :
        call'[o].round # call[o].round =>
            /\ call'[o].round = call[o].round + 1
            /\ call'[o].idx = 1
            /\ call'[o].attempts = <<Models[1].name>>
            /\ call'[o].lastError = <<>>
            /\ \E j \in DOMAIN tasks' :
                   /\ tasks'[j].call = o
                   /\ tasks'[j].round = call'[o].round
                   /\ tasks'[j].model = 1

\* the model list stays as it was configured
C34_ListUntouched == aiModels' = aiModels

\* C34: failover keeps no memory: every logical request (the first request of
\* every call and the second request of a tool round-trip) starts at the
\* first model of the list, also when that model has just been rate-limited,
\* and the model list is never reordered or changed.
C34_FailoverKeepsNoMemory == [][C34_StartsAtFirst /\ C34_ListUntouched]_vars

\* the second request of a tool round-trip waits for the first model while
\* the other call, which that model has just rate-limited, is at the second
C34_Witness ==
    \E o, p \in Calls :
        /\ call[o].round = 2 /\ call[o].idx = 1 /\ call[o].pc = "model"
        /\ call[p].pc = "model" /\ call[p].idx = 2 /\ call[p].lastOut = RateLimited
        /\ Len(tasks) = 2
        /\ tasks[1].call = p /\ tasks[2].call = o /\ tasks[2].model = 1

\* the names of the tools call o offered to the model in its first request
Offered(o) == { call[o].zhipuTools[i] : i \in DOMAIN call[o].zhipuTools }

\* C35: the tool the orchestrator invokes is one of the tools it offered to
\* the model in the first request; when it offered none, it invokes none.
C35_InvokedWasOffered ==
    \A o \in Calls :
        /\ \A i \in DOMAIN call[o].intent : call[o].intent[i].name \in Offered(o)
        /\ call[o].rpc.method = "tools/call" =>
               \A i \in DOMAIN call[o].rpc.params :
                   call[o].rpc.params[i].name \in Offered(o)
        /\ (call[o].listed /\ Offered(o) = {}) => call[o].toolCalls = 0

\* the first reply of call o asks for a tool with arguments that are not JSON
BadArguments(o) ==
    /\ call[o].round = 1
    /\ call[o].verdict = "return"
    /\ Len(call[o].lastOut.reply.tool_calls) > 0
    /\ ~call[o].lastOut.reply.tool_calls[1].argsOk

\* C36: when the tool-invocation intent of the model carries arguments that
\* are not valid JSON, the orchestration fails before any tool is invoked: no
\* tools/call request and no second model request are issued, and the caller
\* receives the fixed fallback string.
C36_BadArgumentsAbort ==
    \A o \in Calls :
        BadArguments(o) =>
            /\ call[o].pc = "done"
            /\ call[o].main = Failure(<<"SyntaxError">>)
            /\ call[o].toolCalls = 0
            /\ call[o].intent = <<>>
            /\ call[o].rpc.method = "tools/list"
            /\ call[o].events = <<"discover", "model">>
            /\ \A j \in DOMAIN tasks : tasks[j].call # o
            /\ call[o].ret = Value(FALLBACK)
            /\ call[o].edits = <<FALLBACK>>

\* a call that offered get_weather got an intent with bad arguments before
\* its 60 s timer fired
C36_Witness ==
    \E o \in Calls :
        /\ BadArguments(o)
        /\ call[o].zhipuTools = <<"get_weather">>
        /\ ~call[o].timedOut
        /\ call[o].ret = Value(FALLBACK)

\* concurrent calls whose 60 s are nearly over: a tool server that is
\* unreachable, a model API that is slow and answers with a text or a rate
\* limit shortly before the timers fire, a list of two models
Rush ==
    [callers |-> {1, 2}, lists |-> {<<CustomModel(1), CustomModel(2)>>},
     utterances |-> {Weather}, statuses |-> {0}, outcomes |-> {Hello, RateLimited},
     ticks |-> {MIN_INTERVAL}]

\* the times shortly before a 60 s timer fires
Eves ==
    { call[o].deadline - e :
         o \in { p \in Calls : call[p].pc # "idle" /\ call[p].ret.kind = "pending" },
         e \in {MIN_INTERVAL \div 2, MIN_INTERVAL} }

\* the clock moves on to time t, shortly before a 60 s timer fires
Linger(t) ==
    /\ t \in Eves
    /\ t > now
    /\ TimersAllow(t)
    /\ now' = t
    /\ lastRequestTime' = Recent(lastRequestTime, t)
    /\ UNCHANGED <<queue, tasks, call, aiModels, env, probe>>

InitRush ==
    /\ now = MIN_INTERVAL
    /\ lastRequestTime = 0
    /\ queue = "fulfilled"
    /\ tasks = <<>>
    /\ call = [o \in Calls |-> InitCall]
    /\ env = Rush
    /\ aiModels \in env.lists
    /\ probe = NoProbe

NextRush ==
    \/ \E o \in Calls, m \in Utterances : Start(o, m)
    \/ \E o \in Calls, st \in HttpStatuses, b \in BOOLEAN : McpPostAnswered(o, st, b)
    \/ \E o \in Calls : McpTimeout(o)
    \/ \E j \in 1..NumCalls : SpacingElapsed(j)
    \/ \E j \in 1..NumCalls, out \in ModelOutcomes : ModelSettle(j, out)
    \/ \E o \in Calls : OuterTimeout(o)
    \/ \E d \in Delays : Tick(d)
    \/ \E o \in Calls, e \in {MIN_INTERVAL \div 2, MIN_INTERVAL} : Linger(call[o].deadline - e)

\* timers that are due fire and the clock moves on; the model API may never
\* answer
SpecRush == InitRush /\ [][NextRush]_vars /\ FairTimers

\* the tasks of queue q ahead of place j that are not dispatched yet
Ahead(q, j) == Cardinality({ i \in 1..(j - 1) : q[i].status \in {"chained", "sleep"} })

\* the task at place j of queue q is not dispatched, and k tasks ahead of it
\* are not either, with k * MIN_INTERVAL more than what is left of the 60 s of
\* its call at time t
Overdue(q, j, c, t) ==
    /\ q[j].status \in {"chained", "sleep"}
    /\ Ahead(q, j) * MIN_INTERVAL > c[q[j].call].deadline - t

\* the task at place j of queue q cannot be dispatched before the 60 s timer
\* of its call is due: the dispatches are MIN_INTERVAL apart, the next one
\* no sooner than MIN_INTERVAL after the last
TooLate(q, j, c, t, lrt) ==
    /\ q[j].status \in {"chained", "sleep"}
    /\ Max(t, lrt + MIN_INTERVAL) + Ahead(q, j) * MIN_INTERVAL > c[q[j].call].deadline

\* the 60 s timer of a call is armed in the step that begins the call, which
\* is the step that sends the discovery request, and is never armed again
C37_BudgetFromStart ==
    \A o \in Calls :
        /\ (call[o].pc = "idle" /\ call'[o].pc # "idle") =>
               /\ call'[o].pc = "discover"
               /\ call'[o].rpc.method = "tools/list"
               /\ call'[o].deadline = now + OUTER_TIMEOUT_MS
        /\ call[o].pc # "idle" => call'[o].deadline = call[o].deadline

\* a request that is late stays too late for as long as it waits, and when
\* it is dispatched the 60 s timer of its call has fired
C37_LateUntilFired ==
    \A j \in DOMAIN tasks :
        (Overdue(tasks, j, call, now) \/ TooLate(tasks, j, call, now, lastRequestTime)) =>
            /\ TooLate(tasks, j, call, now, lastRequestTime)
            /\ \E k \in DOMAIN tasks' :
                   /\ TaskId(tasks'[k]) = TaskId(tasks[j])
                   /\ \/ TooLate(tasks', k, call', now', lastRequestTime')
                      \/ /\ tasks'[k].status = "fetch"
                         /\ call[tasks[j].call].timedOut
                         /\ now > call[tasks[j].call].deadline

\* what the caller of a late request has received is the fallback string
C37_OnlyFallback ==
    \A j \in DOMAIN tasks :
        (Overdue(tasks, j, call, now) /\ call[tasks[j].call].ret.kind # "pending") =>
            /\ call[tasks[j].call].timedOut
            /\ call[tasks[j].call].ret = Value(FALLBACK)

\* the caller of a late request receives the fallback string
C37_GetsFallback ==
    \A o \in Calls :
        (\E j \in DOMAIN tasks : tasks[j].call = o /\ Overdue(tasks, j, call, now))
            ~> (call[o].ret = Value(FALLBACK))

\* C37: the 60 s of a getAIResponse call begin before discovery and go on
\* while its requests wait in the queue: a request that has k tasks not yet
\* dispatched ahead of it, with k * MIN_INTERVAL more than what is left of
\* the 60 s, is dispatched only after the timer has fired, and the caller
\* receives the fallback string.
C37_BudgetCoversQueue ==
    /\ [][C37_BudgetFromStart /\ C37_LateUntilFired]_vars
    /\ []C37_OnlyFallback
    /\ C37_GetsFallback

\* a retry is enqueued 1 s before the 60 s timer of its call fires, behind
\* a task that is in its spacing wait
C37_Witness ==
    \E j \in DOMAIN tasks :
        /\ Overdue(tasks, j, call, now)
        /\ Ahead(tasks, j) = 1
        /\ tasks[j].model = 2
        /\ call[tasks[j].call].ret.kind = "pending"
        /\ call[tasks[j].call].deadline - now = MIN_INTERVAL \div 2

\* a request that was enqueued too late is dispatched after the timer fired
C37_DispatchedAfterwards ==
    \E j \in DOMAIN tasks :
        /\ tasks[j].status = "fetch"
        /\ tasks[j].model = 2
        /\ now = call[tasks[j].call].deadline + MIN_INTERVAL
        /\ call[tasks[j].call].timedOut
        /\ call[tasks[j].call].ret = Value(FALLBACK)

\* two users write at a time: a tool server that is unreachable, a model API
\* that answers with a text, with a blank text or with an error, or not at
\* all; the calls to the Telegram API succeed
Chat ==
    [callers |-> {1, 2}, lists |-> {<<CustomModel(1)>>}, utterances |-> {Weather},
     statuses |-> {0},
     outcomes |-> {Hello, ServerError,
                   Outcome("reply", 200, "", <<>>, [content |-> <<" ">>, tool_calls |-> <<>>])},
     ticks |-> {MIN_INTERVAL}]

InitChat ==
    /\ now = MIN_INTERVAL
    /\ lastRequestTime = 0
    /\ queue = "fulfilled"
    /\ tasks = <<>>
    /\ call = [o \in Calls |-> InitCall]
    /\ env = Chat
    /\ aiModels \in env.lists
    /\ probe = NoProbe

\* timers that are due fire and the clock moves on; the model API may never
\* answer
SpecChat == InitChat /\ [][NextUnreachable]_vars /\ FairTimers

\* the placeholder of a call is edited when getAIResponse has returned, once,
\* with the reply, the warning about an empty reply or the error notice
C38_EditedOnce ==
    \A o \in Calls :
        /\ call[o].ret.kind = "pending" => call[o].edits = <<>>
        /\ call[o].ret.kind # "pending" =>
               /\ Len(call[o].edits) = 1
               /\ \/ call[o].ret.kind = "value" /\ call[o].edits[1] = call[o].ret.val
                  \/ call[o].edits[1] = EMPTY_REPLY_WARNING
                  \/ call[o].edits[1] = UNAVAILABLE
               /\ call[o].edits[1] # <<>>

\* a placeholder that has been edited is not edited again
C38_EditStays ==
    \A o \in Calls : call[o].edits # <<>> => call'[o].edits = call[o].edits

\* the handler of a message does not wait for the orchestrations in flight
C38_HandlerNotBlocked ==
    \A o \in env.callers :
        (call[o].pc = "idle" /\ now + OUTER_TIMEOUT_MS + MIN_INTERVAL <= MaxTime) =>
            ENABLED Start(o, Weather)

\* every placeholder is edited in the end
C38_EditedInTheEnd ==
    \A o \in Calls : (call[o].pc # "idle") ~> (Len(call[o].edits) = 1)

\* C38: the message handler returns when it has sent the placeholder, without
\* waiting for the AI reply, so several orchestrations can be in flight at
\* once; while the calls to the Telegram API succeed, every placeholder is
\* edited in the end, exactly once, with the AI reply, the warning about an
\* empty reply or the error notice.
C38_PlaceholderEditedOnce ==
    /\ [](C38_EditedOnce /\ C38_HandlerNotBlocked)
    /\ [][C38_EditStays]_vars
    /\ C38_EditedInTheEnd

\* two orchestrations are in flight at once: one has ended with a blank
\* reply and its placeholder carries the warning, the request of the other
\* waits for its spacing
C38_Witness ==
    \E o, p \in Calls :
        /\ call[o].edits = <<EMPTY_REPLY_WARNING>>
        /\ call[p].pc = "model" /\ call[p].ret.kind = "pending" /\ call[p].edits = <<>>
        /\ \E j \in DOMAIN tasks : tasks[j].call = p /\ tasks[j].status = "sleep"

====
